---- MODULE Spec2Model ----
(***************************************************************************)
(* NativeAuthServer (src/unnamed/part_002): decode and validate of a       *)
(* bearer token, the origin matcher with its wildcard acceptance cache,    *)
(* and the time-oracle client with the pluggable cache.                    *)
(*                                                                         *)
(* Text is modelled by TLA+ strings (Len, SubSeq and \o act on them), so   *)
(* split, startsWith, endsWith, includes and the base64 decoding are       *)
(* computed character by character as the code computes them.              *)
(***************************************************************************)
EXTENDS Integers, Sequences, FiniteSets, TLC

(***************************************************************************)
(* JavaScript strings                                                      *)
(***************************************************************************)
CharAt(s, i) == SubSeq(s, i, i)

StartsWith(s, p) == Len(p) <= Len(s) /\ SubSeq(s, 1, Len(p)) = p

EndsWith(s, p) == Len(p) <= Len(s) /\ SubSeq(s, Len(s) - Len(p) + 1, Len(s)) = p

\* String.prototype.includes for a one-character needle
IncludesChar(s, ch) == \E i \in 1..Len(s) : CharAt(s, i) = ch

\* Array.prototype.includes on an array of strings
ArrayIncludes(arr, s) == \E i \in 1..Len(arr) : arr[i] = s

\* String.prototype.split(sep) for a one-character separator: the pieces
\* between the separators, in order (n separators give n + 1 pieces).
\* the k-th smallest element of a set of integers
Kth(S, k) == CHOOSE i \in S : Cardinality({j \in S : j <= i}) = k

Split(s, sep) ==
    LET seps == {i \in 1..Len(s) : CharAt(s, i) = sep}
        n == Cardinality(seps)
        pos(k) == IF k = 0 THEN 0 ELSE IF k = n + 1 THEN Len(s) + 1 ELSE Kth(seps, k)
    IN  [k \in 1..(n + 1) |-> SubSeq(s, pos(k - 1) + 1, pos(k) - 1)]

\* the concatenation of the strings f[lo], .., f[hi]
RECURSIVE Join(_, _, _)
Join(f, lo, hi) ==
    IF lo > hi THEN ""
    ELSE IF lo = hi THEN f[lo]
    ELSE LET mid == (lo + hi) \div 2 IN Join(f, lo, mid) \o Join(f, mid + 1, hi)

(***************************************************************************)
(* The characters of the model's texts, by code point: U+0001..U+00FF and  *)
(* U+FFFD. A TLA+ string cannot hold U+0000 or the code points from U+0100 *)
(* on (the replacement character U+FFFD excepted), so a text that needs    *)
(* one has no value here: NotRepresentable fails to evaluate instead of    *)
(* standing for some other text.                                           *)
(***************************************************************************)
NotRepresentable == CHOOSE x \in {} : TRUE

\* U+0060, the grave accent (a string literal cannot start with it)
Backtick == SubSeq("`'", 1, 1)

\* U+0020..U+007E
Ascii == " !\"#$%&'()*+,-./0123456789:;<=>?@ABCDEFGHIJKLMNOPQRSTUVWXYZ[\\]^_" \o Backtick \o "abcdefghijklmnopqrstuvwxyz{|}~"

\* U+0001..U+001F (Control), U+0020..U+007E and U+007F..U+00FF (Latin1)
Chars ==
    LET Control == "\t\n\f\r"
        Latin1 == " ¡¢£¤¥¦§¨©ª«¬­®¯°±²³´µ¶·¸¹º»¼½¾¿"
                  \o "ÀÁÂÃÄÅÆÇÈÉÊËÌÍÎÏÐÑÒÓÔÕÖ×ØÙÚÛÜÝÞßàáâãäåæçèéêëìíîïðñòóôõö÷øùúûüýþÿ"
    IN  Control \o Ascii \o Latin1

\* U+FFFD, which the UTF-8 decoder puts in place of bytes that encode nothing
Replacement == "�"

\* String.fromCodePoint
CharOf(code) ==
    IF code >= 1 /\ code <= 255 THEN CharAt(Chars, code)
    ELSE IF code = 65533 THEN Replacement
    ELSE NotRepresentable

(***************************************************************************)
(* JavaScript numbers. A finite number is v / 2^e with e >= 0 and v odd    *)
(* when e > 0, which a double holds exactly; the pipeline multiplies by    *)
(* 1000, adds and compares, and those are exact on such values. A decimal  *)
(* text whose value is no such fraction (0.1), or whose digits exceed the  *)
(* integers of the checker, has no value here. -0 is not told from 0.      *)
(***************************************************************************)
RECURSIVE Dyadic(_, _)
Dyadic(n, e) ==
    IF e > 0 /\ n % 2 = 0 THEN Dyadic(n \div 2, e - 1) ELSE [k |-> "num", v |-> n, e |-> e]

Num(n) == [k |-> "num", v |-> n, e |-> 0]
Infinity(sign) == [k |-> "inf", v |-> sign, e |-> 0]
NaN == [k |-> "nan", v |-> 0, e |-> 0]
Undefined == [k |-> "undef", v |-> 0, e |-> 0]

\* a finite number
IsNum(x) == x.k = "num"

\* a number other than NaN
IsOrdered(x) == x.k \in {"num", "inf"}

\* ToBoolean: 0, NaN and undefined are falsy
Truthy(x) == (x.k = "num" /\ x.v # 0) \/ x.k = "inf"

RECURSIVE Pow(_, _)
Pow(b, n) == IF n = 0 THEN 1 ELSE b * Pow(b, n - 1)

SignOf(x) == IF x.v > 0 THEN 1 ELSE IF x.v < 0 THEN 0 - 1 ELSE 0

\* the numerator of x over the denominator 2^m, m >= x.e
Scaled(x, m) == x.v * Pow(2, m - x.e)

MaxOf(a, b) == IF a >= b THEN a ELSE b

\* x * y: NaN when an operand is not a number, and for 0 * Infinity
JsMul(x, y) ==
    IF ~IsOrdered(x) \/ ~IsOrdered(y) THEN NaN
    ELSE IF IsNum(x) /\ IsNum(y) THEN Dyadic(x.v * y.v, x.e + y.e)
    ELSE IF SignOf(x) * SignOf(y) = 0 THEN NaN
    ELSE Infinity(SignOf(x) * SignOf(y))

\* x + y: NaN when an operand is not a number, and for Infinity - Infinity
JsAdd(x, y) ==
    IF ~IsOrdered(x) \/ ~IsOrdered(y) THEN NaN
    ELSE IF IsNum(x) /\ IsNum(y)
         THEN LET m == MaxOf(x.e, y.e) IN Dyadic(Scaled(x, m) + Scaled(y, m), m)
    ELSE IF IsNum(x) THEN y
    ELSE IF IsNum(y) THEN x
    ELSE IF x.v = y.v THEN x
    ELSE NaN

\* x < y, x > y: false when an operand is NaN (undefined converts to NaN)
JsLt(x, y) ==
    /\ IsOrdered(x) /\ IsOrdered(y)
    /\ IF IsNum(x) /\ IsNum(y)
       THEN LET m == MaxOf(x.e, y.e) IN Scaled(x, m) < Scaled(y, m)
       ELSE IF IsNum(x) THEN y.v > 0
       ELSE IF IsNum(y) THEN x.v < 0
       ELSE x.v < y.v

JsGt(x, y) == JsLt(y, x)

Digits == "0123456789"

HexDigits == "0123456789abcdef"

\* the value of a digit in a radix up to 16, either case of a letter
DigitValue(ch) ==
    IF \E i \in 1..16 : CharAt(HexDigits, i) = ch
    THEN (CHOOSE i \in 1..16 : CharAt(HexDigits, i) = ch) - 1
    ELSE (CHOOSE i \in 11..16 : CharAt("0123456789ABCDEF", i) = ch) - 1

IsRadixDigit(ch, radix) ==
    \E i \in 1..radix : CharAt(HexDigits, i) = ch \/ CharAt("0123456789ABCDEF", i) = ch

IsDigit(ch) == IsRadixDigit(ch, 10)

AllRadixDigits(s, radix) == Len(s) > 0 /\ \A i \in 1..Len(s) : IsRadixDigit(CharAt(s, i), radix)

AllDigits(s) == AllRadixDigits(s, 10)

RECURSIVE RadixValue(_, _)
RadixValue(s, radix) ==
    IF Len(s) = 0 THEN 0
    ELSE radix * RadixValue(SubSeq(s, 1, Len(s) - 1), radix) + DigitValue(CharAt(s, Len(s)))

DecimalValue(s) == RadixValue(s, 10)

\* StrWhiteSpaceChar: TAB, LF, VT, FF, CR, SP and NBSP (its other members,
\* U+1680, U+2000..U+200A, U+2028, U+2029, U+202F, U+205F, U+3000 and
\* U+FEFF, lie beyond the characters of the model's texts)
StrWhiteSpace ==
    {CharOf(9), CharOf(10), CharOf(11), CharOf(12), CharOf(13), CharOf(32), CharOf(160)}

\* the white space Number() ignores before and after the literal
RECURSIVE TrimLeft(_)
TrimLeft(s) ==
    IF Len(s) > 0 /\ CharAt(s, 1) \in StrWhiteSpace THEN TrimLeft(SubSeq(s, 2, Len(s))) ELSE s

RECURSIVE TrimRight(_)
TrimRight(s) ==
    IF Len(s) > 0 /\ CharAt(s, Len(s)) \in StrWhiteSpace
    THEN TrimRight(SubSeq(s, 1, Len(s) - 1)) ELSE s

\* sign * digits * 10^scale for a run of decimal digits
RECURSIVE DecimalScaled(_, _, _)
DecimalScaled(sign, digits, scale) ==
    LET RECURSIVE StripLeadingZeros(_)
        StripLeadingZeros(t) ==
            IF Len(t) > 0 /\ CharAt(t, 1) = "0" THEN StripLeadingZeros(SubSeq(t, 2, Len(t)))
            ELSE t
        d == StripLeadingZeros(digits)
    IN  IF d = "" THEN Num(0)
        ELSE IF scale >= 0 THEN Num(sign * DecimalValue(d) * Pow(10, scale))
        ELSE IF CharAt(d, Len(d)) = "0"
             THEN DecimalScaled(sign, SubSeq(d, 1, Len(d) - 1), scale + 1)
        ELSE IF DecimalValue(d) % Pow(5, 0 - scale) = 0
             THEN Dyadic(sign * (DecimalValue(d) \div Pow(5, 0 - scale)), 0 - scale)
        ELSE NotRepresentable

\* an ExponentPart without its e: an optionally signed run of digits
IsExponent(s) ==
    IF Len(s) > 0 /\ CharAt(s, 1) \in {"+", "-"} THEN AllDigits(SubSeq(s, 2, Len(s)))
    ELSE AllDigits(s)

ExponentValue(s) ==
    IF CharAt(s, 1) = "-" THEN 0 - DecimalValue(SubSeq(s, 2, Len(s)))
    ELSE IF CharAt(s, 1) = "+" THEN DecimalValue(SubSeq(s, 2, Len(s)))
    ELSE DecimalValue(s)

\* StrUnsignedDecimalLiteral other than Infinity: digits with an optional
\* point and an optional exponent, at least one digit before the exponent
UnsignedDecimal(s) ==
    LET \* the first position of one of the characters in t, 0 when there is none
        FirstOf(t, chars) ==
            IF \E i \in 1..Len(t) : CharAt(t, i) \in chars
            THEN CHOOSE i \in 1..Len(t) :
                    CharAt(t, i) \in chars /\ \A j \in 1..(i - 1) : CharAt(t, j) \notin chars
            ELSE 0
        ePos == FirstOf(s, {"e", "E"})
        mant == IF ePos = 0 THEN s ELSE SubSeq(s, 1, ePos - 1)
        exp == IF ePos = 0 THEN "0" ELSE SubSeq(s, ePos + 1, Len(s))
        dot == FirstOf(mant, {"."})
        int == IF dot = 0 THEN mant ELSE SubSeq(mant, 1, dot - 1)
        frac == IF dot = 0 THEN "" ELSE SubSeq(mant, dot + 1, Len(mant))
    IN  [ok |-> /\ IsExponent(exp)
                /\ int \o frac # ""
                /\ \A i \in 1..Len(int) : IsDigit(CharAt(int, i))
                /\ \A i \in 1..Len(frac) : IsDigit(CharAt(frac, i)),
         digits |-> int \o frac,
         scale |-> (IF IsExponent(exp) THEN ExponentValue(exp) ELSE 0) - Len(frac)]

\* the value of a text that has no white space around it
NumericLiteral(t) ==
    LET prefix == IF Len(t) >= 2 THEN SubSeq(t, 1, 2) ELSE ""
        rest == SubSeq(t, 3, Len(t))
        signed == Len(t) > 0 /\ CharAt(t, 1) \in {"+", "-"}
        sign == IF signed /\ CharAt(t, 1) = "-" THEN 0 - 1 ELSE 1
        body == IF signed THEN SubSeq(t, 2, Len(t)) ELSE t
        literal == UnsignedDecimal(body)
    IN  IF Len(t) = 0 THEN Num(0)
        ELSE IF prefix \in {"0x", "0X"}
             THEN IF AllRadixDigits(rest, 16) THEN Num(RadixValue(rest, 16)) ELSE NaN
        ELSE IF prefix \in {"0o", "0O"}
             THEN IF AllRadixDigits(rest, 8) THEN Num(RadixValue(rest, 8)) ELSE NaN
        ELSE IF prefix \in {"0b", "0B"}
             THEN IF AllRadixDigits(rest, 2) THEN Num(RadixValue(rest, 2)) ELSE NaN
        ELSE IF body = "Infinity" THEN Infinity(sign)
        ELSE IF literal.ok THEN DecimalScaled(sign, literal.digits, literal.scale)
        ELSE NaN

\* Number(text), the StringNumericLiteral grammar: white space around the
\* literal is dropped, the empty text is 0, a literal is 0x, 0o or 0b digits
\* (unsigned) or an optionally signed Infinity or decimal literal, and any
\* other text is NaN.
StringToNumber(s) == NumericLiteral(TrimRight(TrimLeft(s)))

(***************************************************************************)
(* Encoding codec: _unescape and Buffer.from(.., 'base64').toString()      *)
(***************************************************************************)
B64Alphabet == "ABCDEFGHIJKLMNOPQRSTUVWXYZabcdefghijklmnopqrstuvwxyz0123456789+/"

ReplaceAll(s, a, b) ==
    Join([i \in 1..Len(s) |-> IF CharAt(s, i) = a THEN b ELSE CharAt(s, i)], 1, Len(s))

\* str.replace(/-/g, '+').replace(/_/g, '/')
Unescape(str) == ReplaceAll(ReplaceAll(str, "-", "+"), "_", "/")

IsB64Char(ch) == \E i \in 1..64 : CharAt(B64Alphabet, i) = ch

B64Value(ch) == (CHOOSE i \in 1..64 : CharAt(B64Alphabet, i) = ch) - 1

\* The 6-bit values of the text up to the first '=': the decoder skips every
\* character outside the alphabet and stops at the padding.
Sextets(s) ==
    LET pads == {i \in 1..Len(s) : CharAt(s, i) = "="}
        end == IF pads = {} THEN Len(s) + 1 ELSE Kth(pads, 1)
        valid == {i \in 1..(end - 1) : IsB64Char(CharAt(s, i))}
    IN  IF valid = 1..(end - 1)
        THEN [k \in 1..(end - 1) |-> B64Value(CharAt(s, k))]
        ELSE [k \in 1..Cardinality(valid) |-> B64Value(CharAt(s, Kth(valid, k)))]

\* 4 sextets give 3 bytes; a tail of 2 gives 1 byte, of 3 gives 2, of 1 none
BytesOf(x) ==
    LET n == (Len(x) * 6) \div 8
        byte(k) ==
            LET g == 4 * ((k - 1) \div 3)
                r == (k - 1) % 3
            IN  IF r = 0 THEN x[g + 1] * 4 + x[g + 2] \div 16
                ELSE IF r = 1 THEN (x[g + 2] % 16) * 16 + x[g + 3] \div 4
                ELSE (x[g + 3] % 4) * 64 + x[g + 4]
    IN  [k \in 1..n |-> byte(k)]

\* toString('utf8') of bytes. A lead byte asks for 1 to 3 continuation
\* bytes, the first of them in a range that excludes the overlong and the
\* surrogate forms. A well-formed sequence is its code point; every maximal
\* run of bytes that starts a sequence but does not complete one, and every
\* byte that starts none, is one U+FFFD.
TextOf(bytes) ==
    LET \* bytes[i] exists and lies in lo..hi
        ByteIn(i, lo, hi) == i <= Len(bytes) /\ bytes[i] >= lo /\ bytes[i] <= hi
        \* the number of continuation bytes a lead byte asks for
        Utf8Need(b) ==
            IF b < 128 THEN 0
            ELSE IF b >= 194 /\ b <= 223 THEN 1
            ELSE IF b >= 224 /\ b <= 239 THEN 2
            ELSE IF b >= 240 /\ b <= 244 THEN 3
            ELSE 0 - 1
        \* the number of continuation bytes that follow the lead byte i
        Utf8Got(i) ==
            LET need == Utf8Need(bytes[i])
                lo == IF bytes[i] = 224 THEN 160 ELSE IF bytes[i] = 240 THEN 144 ELSE 128
                hi == IF bytes[i] = 237 THEN 159 ELSE IF bytes[i] = 244 THEN 143 ELSE 191
            IN  IF need >= 1 /\ ByteIn(i + 1, lo, hi)
                THEN IF need >= 2 /\ ByteIn(i + 2, 128, 191)
                     THEN IF need >= 3 /\ ByteIn(i + 3, 128, 191) THEN 3 ELSE 2
                     ELSE 1
                ELSE 0
        \* byte i was read as a continuation byte of the sequence begun at a
        \* lead byte up to three places before it
        Utf8Covered(i) ==
            \E j \in 1..(i - 1) : i - j <= 3 /\ Utf8Need(bytes[j]) >= 1 /\ Utf8Got(j) >= i - j
        \* the character decoded at byte i, "" for a byte read with an earlier one
        Utf8Char(i) ==
            LET need == Utf8Need(bytes[i])
                code == IF need = 1 THEN (bytes[i] - 192) * 64 + (bytes[i + 1] - 128)
                        ELSE IF need = 2
                             THEN (bytes[i] - 224) * 4096 + (bytes[i + 1] - 128) * 64
                                  + (bytes[i + 2] - 128)
                        ELSE (bytes[i] - 240) * 262144 + (bytes[i + 1] - 128) * 4096
                             + (bytes[i + 2] - 128) * 64 + (bytes[i + 3] - 128)
            IN  IF ByteIn(i, 128, 191) /\ Utf8Covered(i) THEN ""
                ELSE IF need = 0 THEN CharOf(bytes[i])
                ELSE IF need < 0 \/ Utf8Got(i) < need THEN Replacement
                ELSE CharOf(code)
    IN  Join([k \in 1..Len(bytes) |-> Utf8Char(k)], 1, Len(bytes))

DecodeValue(str) == TextOf(BytesOf(Sextets(Unescape(str))))

\* The inverse used to build the input tokens (issuance is outside the
\* validator; this is UTF-8 and base64url without padding).
CodesOf(s) ==
    LET Utf8Of(ch) ==
            LET code == IF ch = Replacement THEN 65533
                        ELSE CHOOSE c \in 1..255 : CharAt(Chars, c) = ch
            IN  IF code < 128 THEN << code >>
                ELSE IF code < 2048 THEN << 192 + (code \div 64), 128 + (code % 64) >>
                ELSE << 224 + (code \div 4096), 128 + ((code \div 64) % 64),
                        128 + (code % 64) >>
        \* the concatenation of the bytes of the characters lo..hi
        RECURSIVE Concat(_, _)
        Concat(lo, hi) ==
            IF lo > hi THEN << >>
            ELSE IF lo = hi THEN Utf8Of(CharAt(s, lo))
            ELSE LET mid == (lo + hi) \div 2 IN Concat(lo, mid) \o Concat(mid + 1, hi)
    IN  Concat(1, Len(s))

B64Char(v) == CharAt(B64Alphabet, v + 1)

EncodeBytes(b) ==
    LET at(i) == IF i <= Len(b) THEN b[i] ELSE 0
        n == (Len(b) * 8 + 5) \div 6
        char(k) ==
            LET g == 3 * ((k - 1) \div 4)
                r == (k - 1) % 4
            IN  IF r = 0 THEN B64Char(at(g + 1) \div 4)
                ELSE IF r = 1 THEN B64Char((at(g + 1) % 4) * 16 + at(g + 2) \div 16)
                ELSE IF r = 2 THEN B64Char((at(g + 2) % 16) * 4 + at(g + 3) \div 64)
                ELSE B64Char(at(g + 3) % 64)
    IN  Join([k \in 1..n |-> char(k)], 1, n)

EncodeValue(s) == ReplaceAll(ReplaceAll(EncodeBytes(CodesOf(s)), "+", "-"), "/", "_")

(***************************************************************************)
(* JSON.parse of the extraInfo text: a recursive-descent parser of the     *)
(* JSON grammar (objects, arrays, strings with their escapes, numbers,     *)
(* true, false, null, white space between the tokens). A parsed value is   *)
(* a record; members holds an object's members in the order of their first *)
(* occurrence, a repeated name keeping its last value.                     *)
(***************************************************************************)
JsonValue(kind, members, num) ==
    [ok |-> TRUE, kind |-> kind, members |-> members, items |-> << >>, num |-> num, text |-> ""]

JsonError ==
    [ok |-> FALSE, kind |-> "error", members |-> << >>, items |-> << >>, num |-> Num(0),
     text |-> ""]

JsonNumber(n) == JsonValue("number", << >>, n)

JsonString(s) == [JsonValue("string", << >>, Num(0)) EXCEPT !.text = s]

JsonArray(items) == [JsonValue("array", << >>, Num(0)) EXCEPT !.items = items]

\* the character at position i, "" past the end of the text
At(s, i) == IF i >= 1 /\ i <= Len(s) THEN SubSeq(s, i, i) ELSE ""

\* the position of the first character from i on that is no white space of
\* the JSON grammar (tab, line feed, carriage return, space)
RECURSIVE SkipWhiteSpace(_, _)
SkipWhiteSpace(s, i) ==
    IF At(s, i) \in {CharOf(9), CharOf(10), CharOf(13), CharOf(32)}
    THEN SkipWhiteSpace(s, i + 1) ELSE i

ParseFailure == [ok |-> FALSE, val |-> JsonError, pos |-> 0]

Parsed(val, pos) == [ok |-> TRUE, val |-> val, pos |-> pos]

\* U+0001..U+001F, which a JSON string cannot hold unescaped
ControlChars == {CharOf(code) : code \in 1..31}

\* the character an escape letter stands for, "" when the letter is none
EscapeOf(ch) ==
    IF ch \in {"\"", "\\", "/"} THEN ch
    ELSE IF ch = "b" THEN CharOf(8)
    ELSE IF ch = "f" THEN CharOf(12)
    ELSE IF ch = "n" THEN CharOf(10)
    ELSE IF ch = "r" THEN CharOf(13)
    ELSE IF ch = "t" THEN CharOf(9)
    ELSE ""

\* The parser runs twice over a text: first for the syntax alone (build is
\* FALSE and no value is computed), then, on a text of correct syntax, for
\* the value; a text of wrong syntax is an error whatever it would denote.

\* the rest of a string from position i on, acc being the characters read
\* since the opening quote: a raw control character, an unknown escape and
\* a missing closing quote are syntax errors
RECURSIVE StringBody(_, _, _, _)
StringBody(s, i, acc, build) ==
    LET ch == At(s, i)
        hex == SubSeq(s, i + 2, i + 5)
    IN  IF ch = "" \/ ch \in ControlChars THEN ParseFailure
        ELSE IF ch = "\"" THEN Parsed(JsonString(acc), i + 1)
        ELSE IF ch # "\\" THEN StringBody(s, i + 1, acc \o ch, build)
        ELSE IF At(s, i + 1) = "u"
             THEN IF i + 5 <= Len(s) /\ AllRadixDigits(hex, 16)
                  THEN StringBody(s, i + 6,
                                  IF build THEN acc \o CharOf(RadixValue(hex, 16)) ELSE acc,
                                  build)
                  ELSE ParseFailure
        ELSE IF EscapeOf(At(s, i + 1)) # ""
             THEN StringBody(s, i + 2, acc \o EscapeOf(At(s, i + 1)), build)
        ELSE ParseFailure

\* the string whose opening quote is at position i
ParseString(s, i, build) ==
    IF At(s, i) = "\"" THEN StringBody(s, i + 1, "", build) ELSE ParseFailure

\* the position after the run of decimal digits that starts at i
RECURSIVE DigitsEnd(_, _)
DigitsEnd(s, i) == IF At(s, i) # "" /\ IsDigit(At(s, i)) THEN DigitsEnd(s, i + 1) ELSE i

\* the number that starts at position i: -? (0 | [1-9][0-9]*) (. [0-9]+)?
\* ([eE] [+-]? [0-9]+)?
ParseNumber(s, i, build) ==
    LET intStart == IF At(s, i) = "-" THEN i + 1 ELSE i
        \* the number whose integer part, fraction and exponent end where
        \* the arguments say: an empty integer part, fraction or exponent is
        \* a syntax error
        AfterExponent(intEnd, fracEnd, expStart, expEnd) ==
            LET hasFrac == At(s, intEnd) = "."
                hasExp == At(s, fracEnd) \in {"e", "E"}
            IN  IF \/ intEnd = intStart
                   \/ (hasFrac /\ fracEnd = intEnd + 1)
                   \/ (hasExp /\ expEnd = expStart)
                THEN ParseFailure
                ELSE IF ~build THEN Parsed(JsonNumber(Num(0)), expEnd)
                ELSE Parsed(JsonNumber(DecimalScaled(
                                IF intStart > i THEN 0 - 1 ELSE 1,
                                SubSeq(s, intStart, intEnd - 1)
                                \o SubSeq(s, intEnd + 1, fracEnd - 1),
                                (IF hasExp THEN ExponentValue(SubSeq(s, fracEnd + 1, expEnd - 1))
                                 ELSE 0)
                                - (IF hasFrac THEN fracEnd - intEnd - 1 ELSE 0))),
                            expEnd)
        \* the exponent, if there is one, starts at fracEnd
        AfterFraction(intEnd, fracEnd) ==
            LET expStart == IF At(s, fracEnd + 1) \in {"+", "-"} THEN fracEnd + 2
                            ELSE fracEnd + 1
            IN  AfterExponent(intEnd, fracEnd, expStart,
                              IF At(s, fracEnd) \in {"e", "E"} THEN DigitsEnd(s, expStart)
                              ELSE fracEnd)
        \* the fraction, if there is one, starts at intEnd
        AfterInteger(intEnd) ==
            AfterFraction(intEnd, IF At(s, intEnd) = "." THEN DigitsEnd(s, intEnd + 1) ELSE intEnd)
    IN  AfterInteger(IF At(s, intStart) = "0" THEN intStart + 1 ELSE DigitsEnd(s, intStart))

\* text s has the word w at position i
HasWordAt(s, i, w) == i + Len(w) - 1 <= Len(s) /\ SubSeq(s, i, i + Len(w) - 1) = w

\* members with the member (key, value) added: a name already present keeps
\* its place and takes the new value
WithMember(members, key, value) ==
    IF \E k \in 1..Len(members) : members[k].key = key
    THEN [k \in 1..Len(members) |->
             IF members[k].key = key THEN [key |-> key, value |-> value] ELSE members[k]]
    ELSE members \o << [key |-> key, value |-> value] >>

RECURSIVE ParseValue(_, _, _)
RECURSIVE ParseElements(_, _, _, _)
RECURSIVE ParseMembers(_, _, _, _)

\* the value that starts at position i (white space already skipped)
ParseValue(s, i, build) ==
    LET ch == At(s, i)
    IN  IF ch = "{"
        THEN IF At(s, SkipWhiteSpace(s, i + 1)) = "}"
             THEN Parsed(JsonValue("object", << >>, Num(0)), SkipWhiteSpace(s, i + 1) + 1)
             ELSE ParseMembers(s, SkipWhiteSpace(s, i + 1), << >>, build)
        ELSE IF ch = "["
        THEN IF At(s, SkipWhiteSpace(s, i + 1)) = "]"
             THEN Parsed(JsonArray(<< >>), SkipWhiteSpace(s, i + 1) + 1)
             ELSE ParseElements(s, SkipWhiteSpace(s, i + 1), << >>, build)
        ELSE IF ch = "\"" THEN ParseString(s, i, build)
        ELSE IF HasWordAt(s, i, "null") THEN Parsed(JsonValue("null", << >>, Num(0)), i + 4)
        ELSE IF HasWordAt(s, i, "true") THEN Parsed(JsonValue("boolean", << >>, Num(1)), i + 4)
        ELSE IF HasWordAt(s, i, "false") THEN Parsed(JsonValue("boolean", << >>, Num(0)), i + 5)
        ELSE IF ch = "-" \/ (ch # "" /\ IsDigit(ch)) THEN ParseNumber(s, i, build)
        ELSE ParseFailure

\* the elements of an array from position i on, up to its closing bracket
ParseElements(s, i, acc, build) ==
    LET element == ParseValue(s, i, build)
        next == SkipWhiteSpace(s, element.pos)
    IN  IF ~element.ok THEN ParseFailure
        ELSE IF At(s, next) = ","
             THEN ParseElements(s, SkipWhiteSpace(s, next + 1), Append(acc, element.val), build)
        ELSE IF At(s, next) = "]" THEN Parsed(JsonArray(Append(acc, element.val)), next + 1)
        ELSE ParseFailure

\* the members of an object from position i on, up to its closing brace
ParseMembers(s, i, acc, build) ==
    LET key == ParseString(s, i, build)
        colon == SkipWhiteSpace(s, key.pos)
        value == ParseValue(s, SkipWhiteSpace(s, colon + 1), build)
        next == SkipWhiteSpace(s, value.pos)
        members == WithMember(acc, key.val.text, value.val)
    IN  IF ~key.ok \/ At(s, colon) # ":" THEN ParseFailure
        ELSE IF ~value.ok THEN ParseFailure
        ELSE IF At(s, next) = ","
             THEN ParseMembers(s, SkipWhiteSpace(s, next + 1), members, build)
        ELSE IF At(s, next) = "}" THEN Parsed(JsonValue("object", members, Num(0)), next + 1)
        ELSE ParseFailure

\* the value of a text whose grammar was checked with the outcome syntax:
\* only white space may follow the value
ValueOfText(text, syntax) ==
    IF syntax.ok /\ SkipWhiteSpace(text, syntax.pos) = Len(text) + 1
    THEN ParseValue(text, SkipWhiteSpace(text, 1), TRUE).val
    ELSE JsonError

\* JSON.parse(text): the value, or the error (a SyntaxError in the code)
JsonParse(text) == ValueOfText(text, ParseValue(text, SkipWhiteSpace(text, 1), FALSE))

\* a value that is undefined: a missing member, a member of a value that is
\* no object, and the extraInfo that decode deleted
NoExtraInfo ==
    [ok |-> TRUE, kind |-> "absent", members |-> << >>, items |-> << >>, num |-> Num(0),
     text |-> ""]

HasMember(json, name) == \E i \in 1..Len(json.members) : json.members[i].key = name

\* value.name: the member's value, undefined when there is none
Member(json, name) ==
    IF HasMember(json, name)
    THEN json.members[CHOOSE i \in 1..Len(json.members) : json.members[i].key = name].value
    ELSE NoExtraInfo

\* ToBoolean of a parsed value: objects and arrays are truthy; undefined,
\* null, false, 0 and the empty string are falsy
JsonTruthy(json) ==
    \/ json.kind \in {"object", "array"}
    \/ (json.kind \in {"number", "boolean"} /\ Truthy(json.num))
    \/ (json.kind = "string" /\ json.text # "")

\* Number.prototype.toString of the values the model holds
NumberText(x) ==
    LET RECURSIVE NaturalText(_)
        NaturalText(n) ==
            IF n < 10 THEN CharAt(Digits, n + 1)
            ELSE NaturalText(n \div 10) \o CharAt(Digits, (n % 10) + 1)
        \* n as a run of exactly width digits
        RECURSIVE PaddedText(_, _)
        PaddedText(n, width) ==
            IF width = 0 THEN ""
            ELSE PaddedText(n \div 10, width - 1) \o CharAt(Digits, (n % 10) + 1)
        abs == IF x.v < 0 THEN 0 - x.v ELSE x.v
        scaled == abs * Pow(5, x.e)
    IN  IF x.k = "nan" THEN "NaN"
        ELSE IF x.k = "inf" THEN (IF x.v < 0 THEN "-Infinity" ELSE "Infinity")
        ELSE (IF x.v < 0 THEN "-" ELSE "")
             \o NaturalText(scaled \div Pow(10, x.e))
             \o (IF x.e = 0 THEN "" ELSE "." \o PaddedText(scaled % Pow(10, x.e), x.e))

\* the error a template literal throws on a value it cannot convert
TypeError == [thrown |-> "TypeError"]

\* ToPrimitive(value, string) throws: an object parsed from JSON with a
\* member named toString has no callable toString (a JSON value is never a
\* function) and the valueOf it has or inherits gives no primitive; an
\* array is joined, so it throws when the conversion of one of its elements
\* other than null does. An object without such a member inherits
\* Object.prototype.toString.
RECURSIVE ToPrimitiveThrows(_)
ToPrimitiveThrows(json) ==
    IF json.kind = "object" THEN HasMember(json, "toString")
    ELSE IF json.kind = "array"
         THEN \E k \in 1..Len(json.items) : ToPrimitiveThrows(json.items[k])
    ELSE FALSE

\* String(value), as a template literal converts it: the text, or the
\* TypeError thrown
RECURSIVE JsString(_)
JsString(json) ==
    IF ToPrimitiveThrows(json) THEN TypeError
    ELSE IF json.kind = "string" THEN json.text
    ELSE IF json.kind = "number" THEN NumberText(json.num)
    ELSE IF json.kind = "boolean" THEN (IF Truthy(json.num) THEN "true" ELSE "false")
    ELSE IF json.kind = "null" THEN "null"
    ELSE IF json.kind = "object" THEN "[object Object]"
    ELSE IF json.kind = "array"
         THEN Join([k \in 1..(2 * Len(json.items) - 1) |->
                       IF k % 2 = 0 THEN ","
                       ELSE IF json.items[(k + 1) \div 2].kind = "null" THEN ""
                       ELSE JsString(json.items[(k + 1) \div 2])],
                   1, 2 * Len(json.items) - 1)
    ELSE "undefined"

(***************************************************************************)
(* decode(accessToken)                                                     *)
(***************************************************************************)
DecodeFailure ==
    [error |-> "InvalidToken", ttl |-> NaN, origin |-> "", address |-> "",
     extraInfo |-> NoExtraInfo, signature |-> "", blockHash |-> "", body |-> ""]

\* the literal the code compares the raw extraInfo segment with
EmptyExtraInfoSegment == "e30"

\* lines 315-334: the result, once extraInfo is parsed
DecodedResult(tokenComponents, parsedBody, bodyComponents, parsedExtraInfo) ==
    IF ~parsedExtraInfo.ok THEN DecodeFailure
    ELSE [error |-> "none",
          ttl |-> StringToNumber(bodyComponents[3]),
          origin |-> DecodeValue(bodyComponents[1]),
          address |-> DecodeValue(tokenComponents[1]),
          extraInfo |-> IF bodyComponents[4] = EmptyExtraInfoSegment
                        THEN NoExtraInfo ELSE parsedExtraInfo,
          signature |-> tokenComponents[3],
          blockHash |-> bodyComponents[2],
          body |-> parsedBody]

\* lines 305-313: the body splits into four components
DecodedComponents(tokenComponents, parsedBody, bodyComponents) ==
    IF Len(bodyComponents) # 4 THEN DecodeFailure
    ELSE DecodedResult(tokenComponents, parsedBody, bodyComponents,
                       JsonParse(DecodeValue(bodyComponents[4])))

\* lines 301-304: address and body are decoded, the body is split
DecodedBody(tokenComponents, parsedBody) ==
    DecodedComponents(tokenComponents, parsedBody, Split(parsedBody, "."))

\* mutant: segments after the third are ignored
decode_AtLeastThree(accessToken) ==
    IF Len(Split(accessToken, ".")) < 3 THEN DecodeFailure
    ELSE DecodedBody(Split(accessToken, "."), DecodeValue(Split(accessToken, ".")[2]))

decode(accessToken) ==
    IF Len(Split(accessToken, ".")) # 3 THEN DecodeFailure
    ELSE DecodedBody(Split(accessToken, "."), DecodeValue(Split(accessToken, ".")[2]))

\* An issued token: address.body.signature with body = origin.blockHash.ttl.extraInfo
MakeToken(address, origin, blockHash, ttl, extraInfo, signature) ==
    EncodeValue(address) \o "."
    \o EncodeValue(EncodeValue(origin) \o "." \o blockHash \o "." \o ttl \o "."
                   \o EncodeValue(extraInfo))
    \o "." \o signature

(***************************************************************************)
(* Construction                                                            *)
(***************************************************************************)
\* private _maxExpirySeconds = 86400 * 1000
MaxExpirySecondsLimit == 86400000

\* the size above which _acceptedWildcardOrigins drops its first key
WildcardCacheLimit == 1000

\* private _oneHour
OneHour == 3600

\* TTL of the cached latest block timestamp
LatestTtl == 6

\* mutant: an entry must name its scheme before the '*'
WildcardOf_SchemeRequired(origin) ==
    LET components == Split(origin, "*")
    IN  IF Len(components) # 2 THEN [error |-> TRUE, protocol |-> "", domain |-> ""]
        ELSE IF components[1] \notin {"https://", "http://"}
             THEN [error |-> TRUE, protocol |-> "", domain |-> ""]
        ELSE [error |-> FALSE, protocol |-> components[1], domain |-> components[2]]

\* _getWildcardOrigins: "error" when an entry with '*' is malformed
WildcardOf(origin) ==
    LET components == Split(origin, "*")
    IN  IF Len(components) # 2 THEN [error |-> TRUE, protocol |-> "", domain |-> ""]
        ELSE IF components[1] # "" /\ components[1] \notin {"https://", "http://"}
             THEN [error |-> TRUE, protocol |-> "", domain |-> ""]
        ELSE [error |-> FALSE, protocol |-> components[1], domain |-> components[2]]

getWildcardOrigins(acceptedOrigins) ==
    LET idx == {i \in 1..Len(acceptedOrigins) : IncludesChar(acceptedOrigins[i], "*")}
    IN  [k \in 1..Cardinality(idx) |->
            LET w == WildcardOf(acceptedOrigins[Kth(idx, k)])
            IN  [protocol |-> w.protocol, domain |-> w.domain]]

\* mutant: maxExpirySeconds = 0 passes the bound
ConstructorError_AllowsZero(cfg) ==
    IF ~(cfg.maxExpirySeconds >= 0 /\ cfg.maxExpirySeconds <= MaxExpirySecondsLimit)
    THEN "InvalidConfig"
    ELSE IF ~cfg.acceptedOriginsIsArray THEN "InvalidConfig"
    ELSE IF Len(cfg.acceptedOrigins) = 0 THEN "InvalidConfig"
    ELSE IF \E i \in 1..Len(cfg.acceptedOrigins) :
                /\ IncludesChar(cfg.acceptedOrigins[i], "*")
                /\ WildcardOf(cfg.acceptedOrigins[i]).error
         THEN "InvalidWildcardOrigin"
    ELSE "none"

\* the error the constructor throws, "none" when it returns an instance
\* (acceptedOrigins of a config whose acceptedOriginsIsArray is unset stands
\* for a value that is no array, e.g. undefined)
ConstructorError(cfg) ==
    IF ~(cfg.maxExpirySeconds > 0 /\ cfg.maxExpirySeconds <= MaxExpirySecondsLimit)
    THEN "InvalidConfig"
    ELSE IF ~cfg.acceptedOriginsIsArray THEN "InvalidConfig"
    ELSE IF Len(cfg.acceptedOrigins) = 0 THEN "InvalidConfig"
    ELSE IF \E i \in 1..Len(cfg.acceptedOrigins) :
                /\ IncludesChar(cfg.acceptedOrigins[i], "*")
                /\ WildcardOf(cfg.acceptedOrigins[i]).error
         THEN "InvalidWildcardOrigin"
    ELSE "none"

(***************************************************************************)
(* Origin matcher                                                          *)
(***************************************************************************)
\* mutant: the protocol before the '*' is not compared
WildcardMatches_DomainOnly(o, origin) == EndsWith(origin, o.domain)

\* the predicate of _wildcardOrigins.find
WildcardMatches(o, origin) == StartsWith(origin, o.protocol) /\ EndsWith(origin, o.domain)

MatchesSomeWildcard(wildcards, origin) ==
    \E i \in 1..Len(wildcards) : WildcardMatches(wildcards[i], origin)

InSet(set, origin) == \E i \in 1..Len(set) : set[i] = origin

\* Set.add followed by the size check: the first key is deleted when the
\* size exceeds the limit and the key is truthy (the empty string is falsy)
EvictFirst(set) ==
    IF Len(set) > WildcardCacheLimit /\ set[1] # "" THEN Tail(set) ELSE set

AddAccepted(set, origin) ==
    EvictFirst(IF InSet(set, origin) THEN set ELSE Append(set, origin))

\* mutant: the origin is recorded before it is matched
isWildcardOriginAccepted_AddFirst(set, wildcards, origin) ==
    IF InSet(set, origin) THEN [accepted |-> TRUE, set |-> set]
    ELSE IF Len(wildcards) = 0 THEN [accepted |-> FALSE, set |-> set]
    ELSE [accepted |-> MatchesSomeWildcard(wildcards, origin),
          set |-> AddAccepted(set, origin)]

\* _isWildcardOriginAccepted: the answer and the set afterwards
isWildcardOriginAccepted(set, wildcards, origin) ==
    IF InSet(set, origin) THEN [accepted |-> TRUE, set |-> set]
    ELSE IF Len(wildcards) = 0 THEN [accepted |-> FALSE, set |-> set]
    ELSE IF ~MatchesSomeWildcard(wildcards, origin) THEN [accepted |-> FALSE, set |-> set]
    ELSE [accepted |-> TRUE, set |-> AddAccepted(set, origin)]

\* mutant: the 'https://' + origin alternative is missing
ExactMatch_NoHttps(acceptedOrigins, origin) == ArrayIncludes(acceptedOrigins, origin)

\* the exact-match step of _isOriginAccepted
ExactMatch(acceptedOrigins, origin) ==
    ArrayIncludes(acceptedOrigins, origin) \/ ArrayIncludes(acceptedOrigins, "https://" \o origin)

(***************************************************************************)
(* State                                                                   *)
(***************************************************************************)
VARIABLES
    request,                  \* the request the /api/auth loader is serving, and its response
    instance,                 \* "new" before the constructor ran, then "ready" or the error it threw
    config,                   \* the NativeAuthServerConfig given to the constructor
    wildcardOrigins,          \* _wildcardOrigins, derived by the constructor
    acceptedWildcardOrigins,  \* _acceptedWildcardOrigins, in insertion order
    cache,                    \* the entries of the pluggable config.cache
    call,                     \* per validate() call: its position and locals
    validations               \* validate() calls started so far

vars ==
    << request, instance, config, wildcardOrigins, acceptedWildcardOrigins, cache, call,
       validations >>

Calls == {1, 2}

\* validate() calls one behaviour starts
MaxValidations == 2

\* address is a value: the signer's address, or whatever value extraInfo
\* names as the impersonation target
NoResult ==
    [issued |-> Undefined, expires |-> Undefined, origin |-> "", address |-> NoExtraInfo,
     extraInfo |-> NoExtraInfo, signerAddress |-> ""]

\* the loader serves no request
NoRequest ==
    [stage |-> "idle", token |-> "", status |-> 0, error |-> "", user |-> "",
     sessionUserId |-> "", setCookie |-> FALSE]

IdleCall ==
    [pc |-> "idle", token |-> "", decoded |-> DecodeFailure,
     blockTimestamp |-> Undefined, currentBlockTimestamp |-> Undefined,
     expires |-> Undefined, fetched |-> Undefined, valid |-> FALSE,
     isAccepted |-> FALSE,
     impersonateAddress |-> NoExtraInfo,
     outcome |-> "none", error |-> "none", result |-> NoResult,
     log |-> << >>,        \* the collaborator invocations of the call, in order
     replies |-> << >>]    \* their answers, in order

\* the call throws: validate() rejects with this error
Reject(cr, err) == [cr EXCEPT !.pc = "done", !.outcome = "rejected", !.error = err]

\* the call invokes a collaborator and suspends until it answers
Invoke(cr, pc, who, arg) ==
    [cr EXCEPT !.pc = pc, !.log = Append(@, [who |-> who, arg |-> arg])]

\* the collaborator the call waits for answers
Reply(cr, answer) == [cr EXCEPT !.replies = Append(@, answer)]

StatusText(status) ==
    IF status = 200 THEN "200" ELSE IF status = 403 THEN "403"
    ELSE IF status = 404 THEN "404" ELSE "500"

BoolText(b) == IF b THEN "true" ELSE "false"

CacheGet(key) == IF key \in DOMAIN cache THEN cache[key].value ELSE Undefined

CachePut(key, value, ttl) ==
    [k \in DOMAIN cache \cup {key} |->
        IF k = key THEN [value |-> value, ttl |-> ttl] ELSE cache[k]]

BlockKey(hash) == "block:timestamp:" \o hash
LatestKey == "block:timestamp:latest"
\* `impersonate:${address}:${impersonateAddress}`: the key, or the
\* TypeError thrown by the conversion of the target
ImpersonateKey(address, impersonateAddress) ==
    IF ToPrimitiveThrows(impersonateAddress) THEN TypeError
    ELSE "impersonate:" \o address \o ":" \o JsString(impersonateAddress)

(***************************************************************************)
(* validate(accessToken): the synchronous stretches between two awaits     *)
(***************************************************************************)
\* mutant: the TTL in seconds is compared with the bound in milliseconds
TtlExceeds_Unscaled(ttl, maxExpirySeconds) == JsGt(ttl, Num(maxExpirySeconds * 1000))

\* decodedTtl > this.config.maxExpirySeconds * 1000
TtlExceeds(ttl, maxExpirySeconds) == JsGt(JsMul(ttl, Num(1000)), Num(maxExpirySeconds * 1000))

\* mutant: a token is expired already when expires equals the current timestamp
IsTokenExpired_NonStrict(expires, currentBlockTimestamp) ==
    IsNum(expires) /\ IsNum(currentBlockTimestamp) /\ ~JsGt(expires, currentBlockTimestamp)

\* expires < currentBlockTimestamp
IsTokenExpired(expires, currentBlockTimestamp) == JsLt(expires, currentBlockTimestamp)

\* !blockTimestamp
BlockMissing(blockTimestamp) == ~Truthy(blockTimestamp)

\* new Address(decoded.address) of the SDK accepts a bech32 address of the
\* configured human-readable part 'vibe'; the checksum is not modelled.
AddressParses(address) == StartsWith(address, "vibe1")

\* decoded.extraInfo?.multisig ?? decoded.extraInfo?.impersonate
ImpersonateTarget(extraInfo) ==
    IF Member(extraInfo, "multisig").kind \notin {"absent", "null"}
    THEN Member(extraInfo, "multisig")
    ELSE Member(extraInfo, "impersonate")

\* impersonateAddress ?? decoded.address
AddressOf(cr, impersonateAddress) ==
    IF impersonateAddress.kind \notin {"absent", "null"} THEN impersonateAddress
    ELSE JsonString(cr.decoded.address)

\* mutant: the result names the impersonated address as the signer
Resolve_TargetAsSigner(cr, impersonateAddress) ==
    LET address == AddressOf(cr, impersonateAddress)
    IN  [cr EXCEPT !.pc = "done", !.outcome = "resolved",
                   !.impersonateAddress = impersonateAddress,
                   !.result = [issued |-> cr.blockTimestamp,
                               expires |-> cr.expires,
                               origin |-> cr.decoded.origin,
                               address |-> address,
                               extraInfo |-> IF JsonTruthy(cr.decoded.extraInfo)
                                             THEN cr.decoded.extraInfo ELSE NoExtraInfo,
                               signerAddress |-> IF address.kind = "string" THEN address.text
                                                 ELSE cr.decoded.address]]

\* result assembly (lines 402-415)
Resolve(cr, impersonateAddress) ==
    [cr EXCEPT !.pc = "done", !.outcome = "resolved",
               !.impersonateAddress = impersonateAddress,
               !.result = [issued |-> cr.blockTimestamp,
                           expires |-> cr.expires,
                           origin |-> cr.decoded.origin,
                           address |-> AddressOf(cr, impersonateAddress),
                           extraInfo |-> IF JsonTruthy(cr.decoded.extraInfo)
                                         THEN cr.decoded.extraInfo ELSE NoExtraInfo,
                           signerAddress |-> cr.decoded.address]]

\* _validateImpersonateAddressFromUrl up to its first await: the cache key
\* is built first, with or without a cache, and a target that cannot be
\* converted makes validate() reject with the TypeError
StartImpersonateUrl(cr, target) ==
    IF ToPrimitiveThrows(target) THEN Reject(cr, "TypeError")
    ELSE IF config.cache
    THEN Invoke(cr, "impersonateCacheGet", "cache.getValue",
                ImpersonateKey(cr.decoded.address, target))
    ELSE Invoke(cr, "impersonateFetch", "impersonateEndpoint",
                cr.decoded.address \o "/" \o JsString(target))

\* _validateImpersonateAddress after the callback (if any) did not accept
AfterImpersonateCallback(cr, target) ==
    IF config.validateImpersonateUrl THEN StartImpersonateUrl(cr, target)
    ELSE Reject(cr, "InvalidImpersonate")

\* lines 396-400 and _validateImpersonateAddress up to its first await
AfterSignature(cr, valid) ==
    IF ~valid THEN Reject(cr, "InvalidSignature")
    ELSE LET target == ImpersonateTarget(cr.decoded.extraInfo)
         IN  IF ~JsonTruthy(target) THEN Resolve(cr, NoExtraInfo)
             ELSE IF config.validateImpersonateCallback
                  \* the callback is handed the target as it is; the log
                  \* names an object that has no text by its class
                  THEN Invoke(cr, "impersonateCallback", "validateImpersonateCallback",
                              cr.decoded.address \o ","
                                 \o (IF ToPrimitiveThrows(target) THEN "[object Object]"
                                     ELSE JsString(target)))
             ELSE AfterImpersonateCallback(cr, target)

\* mutant: the legacy retry ignores skipLegacyValidation
AfterFirstVerify_AlwaysRetry(cr, valid) ==
    IF ~valid
    THEN Invoke(cr, "verifyLegacy", "verifySignature",
                cr.decoded.address \o cr.decoded.body \o "{}")
    ELSE AfterSignature(cr, valid)

\* lines 391-394: the retry on the legacy message
AfterFirstVerify(cr, valid) ==
    IF ~valid /\ ~config.skipLegacyValidation
    THEN Invoke(cr, "verifyLegacy", "verifySignature",
                cr.decoded.address \o cr.decoded.body \o "{}")
    ELSE AfterSignature(cr, valid)

\* mutant: the ttl is added to the block timestamp in seconds
AfterCurrentTimestamp_Seconds(cr, currentBlockTimestamp) ==
    LET expires == JsAdd(cr.blockTimestamp, cr.decoded.ttl)
        cr1 == [cr EXCEPT !.currentBlockTimestamp = currentBlockTimestamp,
                          !.expires = expires]
    IN  IF IsTokenExpired(expires, currentBlockTimestamp) THEN Reject(cr1, "TokenExpired")
        ELSE IF ~AddressParses(cr.decoded.address) THEN Reject(cr1, "AddressError")
        ELSE Invoke(cr1, "verify", "verifySignature",
                    cr.decoded.address \o cr.decoded.body)

\* lines 372-389: expiry check, then the first signature verification
AfterCurrentTimestamp(cr, currentBlockTimestamp) ==
    LET expires == JsAdd(cr.blockTimestamp, JsMul(cr.decoded.ttl, Num(1000)))
        cr1 == [cr EXCEPT !.currentBlockTimestamp = currentBlockTimestamp,
                          !.expires = expires]
    IN  IF IsTokenExpired(expires, currentBlockTimestamp) THEN Reject(cr1, "TokenExpired")
        ELSE IF ~AddressParses(cr.decoded.address) THEN Reject(cr1, "AddressError")
        ELSE Invoke(cr1, "verify", "verifySignature",
                    cr.decoded.address \o cr.decoded.body)

\* mutant: the latest block is requested before the block-hash check
AfterBlockTimestamp_Eager(cr, blockTimestamp) ==
    LET cr1 == Invoke([cr EXCEPT !.blockTimestamp = blockTimestamp],
                      IF config.cache THEN "currentCacheGet" ELSE "currentFetch",
                      IF config.cache THEN "cache.getValue" ELSE "oracle.latest",
                      IF config.cache THEN LatestKey ELSE "")
    IN  IF BlockMissing(blockTimestamp) THEN Reject(cr1, "InvalidBlockHash") ELSE cr1

\* lines 362-368: the block-hash check, then _getCurrentBlockTimestamp up to
\* its first await
AfterBlockTimestamp(cr, blockTimestamp) ==
    LET cr1 == [cr EXCEPT !.blockTimestamp = blockTimestamp]
    IN  IF BlockMissing(blockTimestamp) THEN Reject(cr1, "InvalidBlockHash")
        ELSE IF config.cache THEN Invoke(cr1, "currentCacheGet", "cache.getValue", LatestKey)
        ELSE Invoke(cr1, "currentFetch", "oracle.latest", "")

\* line 360: _getBlockTimestamp up to its first await
StartBlockTimestamp(cr) ==
    IF config.cache
    THEN Invoke(cr, "blockCacheGet", "cache.getValue", BlockKey(cr.decoded.blockHash))
    ELSE Invoke(cr, "blockFetch", "oracle.block", cr.decoded.blockHash)

(***************************************************************************)
(* The environment: the time oracle, the verifier, the callbacks           *)
(***************************************************************************)
\* GET {apiUrl}/blocks/{hash}?extract=timestamp: the ledger answers by hash
\* (a hash ending in "00" is the block of timestamp 0, "ffff" is unknown),
\* or the transport fails
BlockResponses(hash) ==
    { IF hash = "ffff" THEN [status |-> 404, data |-> Undefined]
      ELSE IF EndsWith(hash, "00") THEN [status |-> 200, data |-> Num(0)]
      ELSE [status |-> 200, data |-> Num(1000)],
      [status |-> 500, data |-> Undefined] }

\* GET {apiUrl}/blocks?size=1&fields=timestamp: the timestamp of the first
\* element, or the transport fails
LatestResponses ==
    { [status |-> 200, data |-> Num(2800)], [status |-> 200, data |-> Num(4000)],
      [status |-> 200, data |-> Num(4001)], [status |-> 500, data |-> Undefined] }

\* GET {validateImpersonateUrl}/{signer}/{target}
ImpersonateStatuses == {200, 403, 500}

(***************************************************************************)
(* Input tokens                                                            *)
(***************************************************************************)
Signer == "vibe1signer"

BaseOrigin == "https://foo.example.com"

Token(origin, blockHash, ttl, extraInfo) ==
    MakeToken(Signer, origin, blockHash, ttl, extraInfo, "5a")

\* a token whose extraInfo segment is given as it stands in the body
TokenOfSegment(origin, blockHash, ttl, extraInfoSegment) ==
    EncodeValue(Signer) \o "."
    \o EncodeValue(EncodeValue(origin) \o "." \o blockHash \o "." \o ttl \o "."
                   \o extraInfoSegment)
    \o ".5a"

Tokens ==
    { Token(BaseOrigin, "aa01", "3", "{}"),
      Token("http://foo.example.com", "ffff", "3", "{}"),
      Token("app.example.com", "ffff", "3", "{}"),
      Token("https://evil.com", "ffff", "3", "{}"),
      Token("http://a.test", "ffff", "3", "{}"),
      Token(BaseOrigin, "aa01", "4", "{}"),
      Token("https://evil.org", "aa01", "4", "{}"),
      Token(BaseOrigin, "aa01", "abc", "{}"),
      Token(BaseOrigin, "aa01", "", "{}"),
      Token(BaseOrigin, "ffff", "3", "{}"),
      Token(BaseOrigin, "aa00", "3", "{}"),
      Token(BaseOrigin, "aa01", "3", "{\"impersonate\":\"vibe1y\"}"),
      "dmliZTFh.e30",
      \* extraInfo with and without an impersonation target, and values that
      \* are no object
      Token(BaseOrigin, "aa01", "3", "{\"multisig\":\"vibe1m\",\"impersonate\":\"vibe1y\"}"),
      Token(BaseOrigin, "ffff", "3", "{\"foo\": \"bar\"}"),
      Token(BaseOrigin, "aa01", "3", "null"),
      \* a one-hour token
      Token(BaseOrigin, "aa01", "3600", "{}"),
      \* a ttl that Number() reads but that is no run of decimal digits: a
      \* hexadecimal literal within the bound and an exponent above it
      Token(BaseOrigin, "aa01", "0x3", "{}"),
      Token(BaseOrigin, "aa01", "1e3", "{}"),
      \* extraInfo that is the empty string, and a multisig of null beside
      \* an impersonate
      Token(BaseOrigin, "aa01", "3", "\"\""),
      Token(BaseOrigin, "aa01", "3", "{\"multisig\":null,\"impersonate\":\"vibe1y\"}"),
      \* a multisig that is not null but falsy, beside an impersonate
      Token(BaseOrigin, "aa01", "3", "{\"multisig\":\"\",\"impersonate\":\"vibe1y\"}"),
      \* a target that has no text: an object with a member toString
      Token(BaseOrigin, "aa01", "3", "{\"impersonate\":{\"toString\":1}}"),
      \* other encodings of the empty object
      Token(BaseOrigin, "ffff", "3", "{ }"),
      TokenOfSegment(BaseOrigin, "aa01", "3", "e30="),
      \* malformed tokens: 4 segments, a body of 3 and of 5 fields, an
      \* extraInfo that is no JSON
      Token(BaseOrigin, "aa01", "3", "{}") \o ".5a",
      EncodeValue(Signer) \o "." \o EncodeValue(EncodeValue(BaseOrigin) \o ".aa01.3") \o ".5a",
      EncodeValue(Signer) \o "." \o EncodeValue(EncodeValue(BaseOrigin) \o ".aa01.3.e30.e30")
          \o ".5a",
      Token(BaseOrigin, "aa01", "3", "{oops"),
      \* a signer address that is no bech32 address of the configured prefix
      MakeToken("notanaddress", BaseOrigin, "aa01", "3", "{}", "5a"),
      \* an origin segment that is no base64 text
      EncodeValue(Signer) \o "." \o EncodeValue("!!!!.ffff.3.e30") \o ".5a" }

\* tokens of distinct origins, the empty origin among them
FullTokens ==
    { Token("", "aa01", "3", "{}"),
      Token("https://new1.example.com", "aa01", "3", "{}"),
      Token("https://new2.example.com", "aa01", "3", "{\"impersonate\":\"vibe1y\"}"),
      Token("http://foo.example.com", "aa01", "3", "{}") }

\* decode over the input tokens, computed once
DecodedTokens == [t \in Tokens \cup FullTokens |-> decode(t)]

\* the decoded token another call of the same signer holds, if any
Remembered(fresh) ==
    LET kept == {c \in Calls : /\ call[c].pc # "idle" /\ call[c].decoded.error = "none"
                               /\ call[c].decoded.address = fresh.address}
    IN  IF fresh.error = "none" /\ kept # {}
        THEN call[CHOOSE c \in kept : \A d \in kept : c <= d].decoded
        ELSE fresh

\* mutant: decode memoizes its result on the instance under the signer's
\* address, and returns it for every later token of that signer
Decoded_Memoized(accessToken) ==
    Remembered(IF accessToken \in Tokens \cup FullTokens THEN DecodedTokens[accessToken]
               ELSE decode(accessToken))

\* decode(accessToken), looked up for an input token
Decoded(accessToken) ==
    IF accessToken \in Tokens \cup FullTokens THEN DecodedTokens[accessToken]
    ELSE decode(accessToken)

(***************************************************************************)
(* Actions                                                                 *)
(***************************************************************************)
\* mutant: the decoded token is kept in a field of the instance, which
\* every call in flight reads
Set_Shared(c, cr) ==
    call' = [x \in Calls |-> IF x = c THEN cr ELSE [call[x] EXCEPT !.decoded = cr.decoded]]

Set(c, cr) == call' = [call EXCEPT ![c] = cr]

\* new NativeAuthServer(config): the checks of the constructor, then the
\* derivation of _wildcardOrigins; a throw leaves no instance
construct ==
    /\ instance = "new"
    /\ LET err == ConstructorError(config)
       IN  /\ instance' = IF err = "none" THEN "ready" ELSE err
           /\ wildcardOrigins' = IF err = "none" THEN getWildcardOrigins(config.acceptedOrigins)
                                  ELSE << >>
    /\ UNCHANGED << request, config, acceptedWildcardOrigins, cache, call, validations >>

\* decode(accessToken) called by a client of the instance: it returns the
\* decoded token or throws, and touches no field of the instance
decodeToken(c, accessToken) ==
    /\ instance = "ready"
    /\ call[c].pc \in {"idle", "done"}
    /\ \E decoded \in {Decoded(accessToken)} :
           Set(c, [IdleCall EXCEPT !.pc = "done", !.token = accessToken,
                                   !.decoded = decoded,
                                   !.outcome = IF decoded.error = "none" THEN "decoded"
                                               ELSE "rejected",
                                   !.error = decoded.error])
    /\ UNCHANGED << request, instance, config, wildcardOrigins, acceptedWildcardOrigins, cache,
                    validations >>

\* the promise of _isOriginAccepted has settled with this answer and the
\* call waits at the await of line 354 to resume
OriginSettled(cr, isAccepted) == [cr EXCEPT !.pc = "originCheck", !.isAccepted = isAccepted]

\* validate(accessToken) up to its first await (line 354): decode, the TTL
\* bound and the synchronous part of _isOriginAccepted, which records a
\* wildcard match at once and calls the callback, if it comes to that,
\* before validate() suspends
validate(c, accessToken) ==
    /\ instance = "ready"
    /\ call[c].pc \in {"idle", "done"}
    /\ validations < MaxValidations
    /\ validations' = validations + 1
    /\ \E decoded \in {Decoded(accessToken)} :
       LET cr == [IdleCall EXCEPT !.token = accessToken, !.decoded = decoded]
       IN  IF decoded.error # "none"
           THEN Set(c, Reject(cr, decoded.error)) /\ UNCHANGED acceptedWildcardOrigins
           ELSE IF TtlExceeds(decoded.ttl, config.maxExpirySeconds)
           THEN Set(c, Reject(cr, "InvalidTokenTtl")) /\ UNCHANGED acceptedWildcardOrigins
           ELSE LET w == isWildcardOriginAccepted(acceptedWildcardOrigins, wildcardOrigins,
                                                  decoded.origin)
                IN  /\ acceptedWildcardOrigins' = w.set
                    /\ IF w.accepted \/ ExactMatch(config.acceptedOrigins, decoded.origin)
                       THEN Set(c, OriginSettled(cr, TRUE))
                       ELSE IF config.isOriginAccepted
                       THEN Set(c, Invoke(cr, "originCallback", "isOriginAccepted",
                                          decoded.origin))
                       ELSE Set(c, OriginSettled(cr, FALSE))
    /\ UNCHANGED << request, instance, config, wildcardOrigins, cache >>

\* validate() resumes after the await of line 354 (lines 356-360): it
\* throws when the origin was not accepted and otherwise starts
\* _getBlockTimestamp, the first call of a collaborator
IsOriginAcceptedReturns(c) ==
    /\ call[c].pc = "originCheck"
    /\ Set(c, IF call[c].isAccepted THEN StartBlockTimestamp(call[c])
              ELSE Reject(call[c], "OriginNotAccepted"))
    /\ UNCHANGED << request, instance, config, wildcardOrigins, acceptedWildcardOrigins, cache, validations >>

\* mutant: an origin the callback accepted is added to the configured list
OriginCallbackAnswers_Learns(c) ==
    /\ call[c].pc = "originCallback"
    /\ \E accepted \in BOOLEAN :
          LET cr == Reply(call[c], BoolText(accepted))
          IN  /\ Set(c, OriginSettled(cr, accepted))
              /\ config' = IF accepted
                           THEN [config EXCEPT !.acceptedOrigins =
                                                  Append(@, cr.decoded.origin)]
                           ELSE config
    /\ UNCHANGED << request, instance, wildcardOrigins, acceptedWildcardOrigins, cache, validations >>

\* config.isOriginAccepted(origin) answers
OriginCallbackAnswers(c) ==
    /\ call[c].pc = "originCallback"
    /\ \E accepted \in BOOLEAN :
          LET cr == Reply(call[c], BoolText(accepted))
          IN  Set(c, OriginSettled(cr, accepted))
    /\ UNCHANGED << request, instance, config, wildcardOrigins, acceptedWildcardOrigins, cache, validations >>

\* mutant: the block timestamp is read under the key of the latest block
BlockCacheAnswers_WrongKey(c) ==
    /\ call[c].pc = "blockCacheGet"
    /\ LET timestamp == CacheGet(LatestKey)
           cr == Reply(call[c], IF timestamp = Undefined THEN "miss" ELSE "hit")
       IN  Set(c, IF Truthy(timestamp) THEN AfterBlockTimestamp(cr, timestamp)
                  ELSE Invoke(cr, "blockFetch", "oracle.block", cr.decoded.blockHash))
    /\ UNCHANGED << request, instance, config, wildcardOrigins, acceptedWildcardOrigins, cache,
                    validations >>

\* cache.getValue('block:timestamp:{hash}') answers
BlockCacheAnswers(c) ==
    /\ call[c].pc = "blockCacheGet"
    /\ LET timestamp == CacheGet(BlockKey(call[c].decoded.blockHash))
           cr == Reply(call[c], IF timestamp = Undefined THEN "miss" ELSE "hit")
       IN  Set(c, IF Truthy(timestamp) THEN AfterBlockTimestamp(cr, timestamp)
                  ELSE Invoke(cr, "blockFetch", "oracle.block", cr.decoded.blockHash))
    /\ UNCHANGED << request, instance, config, wildcardOrigins, acceptedWildcardOrigins, cache, validations >>

\* mutant: every failure of the block-hash request counts as "not found"
BlockFetchAnswers_Swallow(c) ==
    /\ call[c].pc = "blockFetch"
    /\ \E r \in BlockResponses(call[c].decoded.blockHash) :
          LET cr == Reply(call[c], StatusText(r.status))
          IN  Set(c, IF r.status = 200
                     THEN IF config.cache
                          THEN Invoke([cr EXCEPT !.fetched = r.data], "blockCacheSet",
                                      "cache.setValue", BlockKey(cr.decoded.blockHash))
                          ELSE AfterBlockTimestamp(cr, r.data)
                     ELSE AfterBlockTimestamp(cr, Undefined))
    /\ UNCHANGED << request, instance, config, wildcardOrigins, acceptedWildcardOrigins, cache, validations >>

\* the oracle answers the block-hash request
BlockFetchAnswers(c) ==
    /\ call[c].pc = "blockFetch"
    /\ \E r \in BlockResponses(call[c].decoded.blockHash) :
          LET cr == Reply(call[c], StatusText(r.status))
          IN  Set(c, IF r.status = 200
                     THEN IF config.cache
                          THEN Invoke([cr EXCEPT !.fetched = r.data], "blockCacheSet",
                                      "cache.setValue", BlockKey(cr.decoded.blockHash))
                          ELSE AfterBlockTimestamp(cr, r.data)
                     ELSE IF r.status = 404 THEN AfterBlockTimestamp(cr, Undefined)
                     ELSE Reject(cr, "TransportError"))
    /\ UNCHANGED << request, instance, config, wildcardOrigins, acceptedWildcardOrigins, cache, validations >>

\* cache.setValue('block:timestamp:{hash}', timestamp, maxExpirySeconds) returns
BlockCacheSetAnswers(c) ==
    /\ call[c].pc = "blockCacheSet"
    /\ cache' = CachePut(BlockKey(call[c].decoded.blockHash), call[c].fetched,
                         config.maxExpirySeconds)
    /\ Set(c, AfterBlockTimestamp(Reply(call[c], "ok"), call[c].fetched))
    /\ UNCHANGED << request, instance, config, wildcardOrigins, acceptedWildcardOrigins, validations >>

\* cache.getValue('block:timestamp:latest') answers
CurrentCacheAnswers(c) ==
    /\ call[c].pc = "currentCacheGet"
    /\ LET timestamp == CacheGet(LatestKey)
           cr == Reply(call[c], IF timestamp = Undefined THEN "miss" ELSE "hit")
       IN  Set(c, IF Truthy(timestamp) THEN AfterCurrentTimestamp(cr, timestamp)
                  ELSE Invoke(cr, "currentFetch", "oracle.latest", ""))
    /\ UNCHANGED << request, instance, config, wildcardOrigins, acceptedWildcardOrigins, cache, validations >>

\* mutant: a failed request for the latest block is sent again
CurrentFetchAnswers_Retry(c) ==
    /\ call[c].pc = "currentFetch"
    /\ \E r \in LatestResponses :
          LET cr == Reply(call[c], StatusText(r.status))
          IN  Set(c, IF r.status = 200
                     THEN IF config.cache
                          THEN Invoke([cr EXCEPT !.fetched = r.data], "currentCacheSet",
                                      "cache.setValue", LatestKey)
                          ELSE AfterCurrentTimestamp(cr, r.data)
                     ELSE IF Len(cr.log) < 6
                     THEN Invoke(cr, "currentFetch", "oracle.latest", "")
                     ELSE Reject(cr, "TransportError"))
    /\ UNCHANGED << request, instance, config, wildcardOrigins, acceptedWildcardOrigins, cache, validations >>

\* the oracle answers the latest-block request
CurrentFetchAnswers(c) ==
    /\ call[c].pc = "currentFetch"
    /\ \E r \in LatestResponses :
          LET cr == Reply(call[c], StatusText(r.status))
          IN  Set(c, IF r.status = 200
                     THEN IF config.cache
                          THEN Invoke([cr EXCEPT !.fetched = r.data], "currentCacheSet",
                                      "cache.setValue", LatestKey)
                          ELSE AfterCurrentTimestamp(cr, r.data)
                     ELSE Reject(cr, "TransportError"))
    /\ UNCHANGED << request, instance, config, wildcardOrigins, acceptedWildcardOrigins, cache, validations >>

\* cache.setValue('block:timestamp:latest', timestamp, 6) returns
CurrentCacheSetAnswers(c) ==
    /\ call[c].pc = "currentCacheSet"
    /\ cache' = CachePut(LatestKey, call[c].fetched, LatestTtl)
    /\ Set(c, AfterCurrentTimestamp(Reply(call[c], "ok"), call[c].fetched))
    /\ UNCHANGED << request, instance, config, wildcardOrigins, acceptedWildcardOrigins, validations >>

\* the verifier answers for the message address + body
VerifyAnswers(c) ==
    /\ call[c].pc = "verify"
    /\ \E valid \in BOOLEAN :
          Set(c, AfterFirstVerify([Reply(call[c], BoolText(valid)) EXCEPT !.valid = valid],
                                  valid))
    /\ UNCHANGED << request, instance, config, wildcardOrigins, acceptedWildcardOrigins, cache, validations >>

\* the verifier answers for the legacy message address + body + "{}"
VerifyLegacyAnswers(c) ==
    /\ call[c].pc = "verifyLegacy"
    /\ \E valid \in BOOLEAN :
          Set(c, AfterSignature([Reply(call[c], BoolText(valid)) EXCEPT !.valid = valid],
                                valid))
    /\ UNCHANGED << request, instance, config, wildcardOrigins, acceptedWildcardOrigins, cache, validations >>

\* config.validateImpersonateCallback(signer, target) answers
ImpersonateCallbackAnswers(c) ==
    /\ call[c].pc = "impersonateCallback"
    /\ LET target == ImpersonateTarget(call[c].decoded.extraInfo)
       IN  \E isValid \in BOOLEAN :
              LET cr == Reply(call[c], BoolText(isValid))
              IN  Set(c, IF isValid THEN Resolve(cr, target)
                         ELSE AfterImpersonateCallback(cr, target))
    /\ UNCHANGED << request, instance, config, wildcardOrigins, acceptedWildcardOrigins, cache, validations >>

\* cache.getValue('impersonate:{signer}:{target}') answers
ImpersonateCacheAnswers(c) ==
    /\ call[c].pc = "impersonateCacheGet"
    /\ LET target == ImpersonateTarget(call[c].decoded.extraInfo)
           cachedValue == CacheGet(ImpersonateKey(call[c].decoded.address, target))
           cr == Reply(call[c], IF cachedValue = Undefined THEN "miss" ELSE "hit")
       IN  Set(c, IF cachedValue = Num(1) THEN Resolve(cr, target)
                  ELSE Invoke(cr, "impersonateFetch", "impersonateEndpoint",
                              cr.decoded.address \o "/" \o JsString(target)))
    /\ UNCHANGED << request, instance, config, wildcardOrigins, acceptedWildcardOrigins, cache, validations >>

\* the impersonation endpoint answers
ImpersonateFetchAnswers(c) ==
    /\ call[c].pc = "impersonateFetch"
    /\ LET target == ImpersonateTarget(call[c].decoded.extraInfo)
           key == ImpersonateKey(call[c].decoded.address, target)
       IN  \E status \in ImpersonateStatuses :
              LET cr == Reply(call[c], StatusText(status))
              IN  Set(c, IF status = 200
                         THEN IF config.cache
                              THEN Invoke([cr EXCEPT !.fetched = Num(1)],
                                          "impersonateCacheSet", "cache.setValue", key)
                              ELSE Resolve(cr, target)
                         ELSE IF status = 403
                         THEN IF config.cache
                              THEN Invoke([cr EXCEPT !.fetched = Num(0)],
                                          "impersonateCacheSet", "cache.setValue", key)
                              ELSE Reject(cr, "InvalidImpersonate")
                         ELSE Reject(cr, "TransportError"))
    /\ UNCHANGED << request, instance, config, wildcardOrigins, acceptedWildcardOrigins, cache, validations >>

\* mutant: the approval is cached for the time of the latest block timestamp
ImpersonateCacheSetAnswers_ShortTtl(c) ==
    /\ call[c].pc = "impersonateCacheSet"
    /\ LET target == ImpersonateTarget(call[c].decoded.extraInfo)
           cr == Reply(call[c], "ok")
       IN  /\ cache' = CachePut(ImpersonateKey(cr.decoded.address, target), cr.fetched,
                                LatestTtl)
           /\ Set(c, IF cr.fetched = Num(1) THEN Resolve(cr, target)
                     ELSE Reject(cr, "InvalidImpersonate"))
    /\ UNCHANGED << request, instance, config, wildcardOrigins, acceptedWildcardOrigins, validations >>

\* cache.setValue('impersonate:{signer}:{target}', 1 or 0, _oneHour) returns
ImpersonateCacheSetAnswers(c) ==
    /\ call[c].pc = "impersonateCacheSet"
    /\ LET target == ImpersonateTarget(call[c].decoded.extraInfo)
           cr == Reply(call[c], "ok")
       IN  /\ cache' = CachePut(ImpersonateKey(cr.decoded.address, target), cr.fetched,
                                OneHour)
           /\ Set(c, IF cr.fetched = Num(1) THEN Resolve(cr, target)
                     ELSE Reject(cr, "InvalidImpersonate"))
    /\ UNCHANGED << request, instance, config, wildcardOrigins, acceptedWildcardOrigins, validations >>

\* the positions at which a call waits for the pluggable cache
CachePositions ==
    {"blockCacheGet", "blockCacheSet", "currentCacheGet", "currentCacheSet",
     "impersonateCacheGet", "impersonateCacheSet"}

\* config.cache.getValue or setValue rejects with an error of some shape:
\* an axios error of status 404 or 403 (a cache served over HTTP), or
\* anything else. getValue (lines 451, 512, 531) and setValue of the latest
\* timestamp (line 523) are outside any try: validate() rejects with the
\* cache's error. setValue of the block timestamp (line 542) is inside the
\* try of _getBlockTimestamp, whose catch returns undefined on an axios 404
\* and rethrows the rest. setValue of an approval (line 464) is inside the
\* try of _validateImpersonateAddressFromUrl, whose catch on an axios 403
\* writes the decision 0 (line 472) and then throws InvalidImpersonate, and
\* rethrows the rest; setValue of line 472 is inside that catch, so its
\* failure rejects validate() with the cache's error.
CacheFails(c) ==
    /\ call[c].pc \in CachePositions
    /\ \E shape \in {"other", "axios404", "axios403"} :
          LET cr == Reply(call[c], IF shape = "axios404" THEN "error404"
                                   ELSE IF shape = "axios403" THEN "error403"
                                   ELSE "error")
          IN  Set(c, IF cr.pc = "blockCacheSet" /\ shape = "axios404"
                     THEN AfterBlockTimestamp(cr, Undefined)
                     ELSE IF cr.pc = "impersonateCacheSet" /\ cr.fetched = Num(1)
                             /\ shape = "axios403"
                     THEN Invoke([cr EXCEPT !.fetched = Num(0)], "impersonateCacheSet",
                                 "cache.setValue",
                                 ImpersonateKey(cr.decoded.address,
                                                ImpersonateTarget(cr.decoded.extraInfo)))
                     ELSE Reject(cr, "CacheError"))
    /\ UNCHANGED << request, instance, config, wildcardOrigins, acceptedWildcardOrigins, cache, validations >>

\* the TTL of a cache entry runs out
CacheExpire ==
    /\ \E key \in DOMAIN cache : cache' = [k \in DOMAIN cache \ {key} |-> cache[k]]
    /\ UNCHANGED << request, instance, config, wildcardOrigins, acceptedWildcardOrigins, call, validations >>

\* one step of the call c after its start
Continue(c) ==
    \/ OriginCallbackAnswers(c)
    \/ IsOriginAcceptedReturns(c)
    \/ BlockCacheAnswers(c)
    \/ BlockFetchAnswers(c)
    \/ BlockCacheSetAnswers(c)
    \/ CurrentCacheAnswers(c)
    \/ CurrentFetchAnswers(c)
    \/ CurrentCacheSetAnswers(c)
    \/ VerifyAnswers(c)
    \/ VerifyLegacyAnswers(c)
    \/ ImpersonateCallbackAnswers(c)
    \/ ImpersonateCacheAnswers(c)
    \/ ImpersonateFetchAnswers(c)
    \/ ImpersonateCacheSetAnswers(c)

(***************************************************************************)
(* Inputs                                                                  *)
(***************************************************************************)
BaseConfigs ==
    [ maxExpirySeconds : {3},
      acceptedOriginsIsArray : {TRUE},
      acceptedOrigins : { << "https://*.example.com" >>,
                          << "https://app.example.com", "https://evil.com", "http://*.test" >>,
                          << "*" >> },
      skipLegacyValidation : BOOLEAN,
      isOriginAccepted : BOOLEAN,
      validateImpersonateCallback : BOOLEAN,
      validateImpersonateUrl : BOOLEAN,
      cache : BOOLEAN ]

\* a configuration that admits one-hour tokens
HourConfig ==
    [ maxExpirySeconds |-> 3600,
      acceptedOriginsIsArray |-> TRUE,
      acceptedOrigins |-> << "https://*.example.com" >>,
      skipLegacyValidation |-> TRUE,
      isOriginAccepted |-> FALSE,
      validateImpersonateCallback |-> FALSE,
      validateImpersonateUrl |-> FALSE,
      cache |-> FALSE ]

\* every combination of the options with the wildcard list, the list of
\* exact origins with and without the origin callback, and HourConfig
Configs ==
    {cfg \in BaseConfigs :
        \/ cfg.acceptedOrigins = << "https://*.example.com" >>
        \/ ~cfg.skipLegacyValidation /\ ~cfg.validateImpersonateCallback
              /\ ~cfg.validateImpersonateUrl /\ ~cfg.cache}
    \cup {HourConfig}

Init ==
    /\ instance = "ready"
    /\ config \in {cfg \in Configs : ConstructorError(cfg) = "none"
                                     /\ cfg.acceptedOrigins # << "*" >>}
    /\ wildcardOrigins = getWildcardOrigins(config.acceptedOrigins)
    /\ acceptedWildcardOrigins = << >>
    /\ cache = << >>
    /\ call = [c \in Calls |-> IdleCall]
    /\ validations = 0
    /\ request = NoRequest

Next ==
    \/ \E accessToken \in Tokens : validate(1, accessToken)
    \/ Continue(1)
    \/ CacheExpire

Spec == Init /\ [][Next]_vars

(***************************************************************************)
(* validate() and decode() on one instance, in any order.                  *)
(***************************************************************************)
\* the tokens handed to decode(): two well-formed ones and a malformed one
FrameTokens ==
    { Token(BaseOrigin, "aa01", "3", "{}"),
      Token("https://evil.com", "ffff", "3", "{}"),
      "dmliZTFh.e30" }

NextFrame ==
    \/ Next
    \/ \E accessToken \in FrameTokens : decodeToken(1, accessToken)

SpecFrame == Init /\ [][NextFrame]_vars

(***************************************************************************)
(* A full wildcard acceptance cache: the instance accepts every origin     *)
(* (acceptedOrigins = ['*']) and has already accepted many distinct ones.  *)
(***************************************************************************)
Filler(i) == "https://h" \o ToString(i) \o ".example.com"

\* the cache after accepting n distinct origins, the first of them `first`
Accepted(first, n) == [i \in 1..n |-> IF i = 1 THEN first ELSE Filler(i)]

InitFull ==
    /\ instance = "ready"
    /\ config \in {cfg \in BaseConfigs : /\ ConstructorError(cfg) = "none"
                                         /\ cfg.cache /\ cfg.isOriginAccepted
                                         /\ cfg.validateImpersonateCallback
                                         /\ cfg.validateImpersonateUrl
                                         /\ ~cfg.skipLegacyValidation}
    /\ wildcardOrigins = getWildcardOrigins(config.acceptedOrigins)
    /\ acceptedWildcardOrigins \in
          { set \in { Accepted(Filler(1), WildcardCacheLimit - 1),
                      Accepted(Filler(1), WildcardCacheLimit),
                      Accepted("", WildcardCacheLimit - 1),
                      Accepted("", WildcardCacheLimit) } :
              \A i \in 1..Len(set) : MatchesSomeWildcard(wildcardOrigins, set[i]) }
    /\ cache = << >>
    /\ call = [c \in Calls |-> IdleCall]
    /\ validations = 0
    /\ request = NoRequest

NextFull ==
    \/ \E accessToken \in FullTokens : validate(1, accessToken)
    \/ Continue(1)
    \/ CacheExpire

SpecFull == InitFull /\ [][NextFull]_vars

\* two concurrent calls, each made once, on an instance whose acceptance
\* cache is full: the first presents a new matching origin, the second
\* another new matching origin or one that needs the origin callback
InitFullConc ==
    /\ InitFull
    /\ Len(acceptedWildcardOrigins) = WildcardCacheLimit

NextFullConc ==
    \/ call[1].pc = "idle"
          /\ validate(1, Token("https://new1.example.com", "aa01", "3", "{}"))
    \/ \E accessToken \in FullTokens :
          /\ call[2].pc = "idle"
          /\ Decoded(accessToken).origin
                \in {"https://new2.example.com", "http://foo.example.com"}
          /\ validate(2, accessToken)
    \/ \E c \in Calls : Continue(c)
    \/ CacheExpire

SpecFullConc == InitFullConc /\ [][NextFullConc]_vars

(***************************************************************************)
(* A failing cache: validate() on an instance whose pluggable cache may    *)
(* reject any read or write.                                               *)
(***************************************************************************)
InitFaulty == Init /\ config.cache

NextFaulty ==
    \/ Next
    \/ CacheFails(1)

SpecFaulty == InitFaulty /\ [][NextFaulty]_vars

(***************************************************************************)
(* Construction: the constructor is given any configuration, well-formed   *)
(* or not, and validate() runs on the instance it returns.                 *)
(***************************************************************************)
CtorConfigs ==
    { cfg \in [ maxExpirySeconds : {0 - 1, 0, 1, 3, MaxExpirySecondsLimit,
                                    MaxExpirySecondsLimit + 1},
                acceptedOriginsIsArray : BOOLEAN,
                acceptedOrigins : { << >>,
                                    << "https://*.example.com" >>,
                                    << "*" >>,
                                    << "https://api.example.com" >>,
                                    << "*.example.com", "http://*" >>,
                                    << "https://a.com", "a*b*c" >>,
                                    << "**" >>,
                                    << "https://*.example.com", "ftp://*.x.com" >>,
                                    << "https://a.com", "x*.example.com" >> },
                skipLegacyValidation : {FALSE},
                isOriginAccepted : {TRUE},
                validateImpersonateCallback : {TRUE},
                validateImpersonateUrl : {TRUE},
                cache : {TRUE} ] :
        ~cfg.acceptedOriginsIsArray => cfg.acceptedOrigins = << >> }

CtorTokens ==
    { Token(BaseOrigin, "aa01", "3", "{}"),
      Token(BaseOrigin, "aa01", "3", "{\"impersonate\":\"vibe1y\"}"),
      Token("http://foo.example.com", "ffff", "3", "{}") }

InitCtor ==
    /\ instance = "new"
    /\ config \in CtorConfigs
    /\ wildcardOrigins = << >>
    /\ acceptedWildcardOrigins = << >>
    /\ cache = << >>
    /\ call = [c \in Calls |-> IdleCall]
    /\ validations = 0
    /\ request = NoRequest

\* validate() is run on the instances of a small maxExpirySeconds: the
\* products of the TTL bound of the others exceed 32-bit integers
NextCtor ==
    \/ construct
    \/ \E accessToken \in CtorTokens :
          config.maxExpirySeconds <= 3 /\ validate(1, accessToken)
    \/ Continue(1)
    \/ CacheExpire

SpecCtor == InitCtor /\ [][NextCtor]_vars

(***************************************************************************)
(* Concurrent validation: two validate() calls on one instance, each made  *)
(* once, their continuations interleaved at every await.                   *)
(***************************************************************************)
ConcTokens ==
    { Token(BaseOrigin, "aa01", "3", "{}"),
      Token("https://evil.com", "ffff", "3", "{}"),
      Token(BaseOrigin, "aa01", "3", "{\"impersonate\":\"vibe1y\"}") }

InitConc ==
    /\ instance = "ready"
    /\ config \in {cfg \in Configs : /\ cfg.maxExpirySeconds = 3
                                     /\ cfg.acceptedOrigins = << "https://*.example.com" >>
                                     /\ cfg.isOriginAccepted
                                     /\ ~cfg.skipLegacyValidation
                                     /\ cfg.validateImpersonateUrl
                                     /\ cfg.validateImpersonateCallback = ~cfg.cache}
    /\ wildcardOrigins = getWildcardOrigins(config.acceptedOrigins)
    /\ acceptedWildcardOrigins = << >>
    /\ cache = << >>
    /\ call = [c \in Calls |-> IdleCall]
    /\ validations = 0
    /\ request = NoRequest

NextConc ==
    \/ \E c \in Calls, accessToken \in ConcTokens :
          call[c].pc = "idle" /\ validate(c, accessToken)
    \/ \E c \in Calls : Continue(c)
    \/ CacheExpire

SpecConc == InitConc /\ [][NextConc]_vars

(***************************************************************************)
(* decode() beside a validation: clients call decode on an instance while  *)
(* a validate() call of it is in flight, before and after it accepted an   *)
(* origin and cached a timestamp or an approval.                           *)
(***************************************************************************)
InitDecode == InitConc

NextDecode ==
    \/ \E accessToken \in ConcTokens : call[1].pc = "idle" /\ validate(1, accessToken)
    \/ Continue(1)
    \/ \E c \in Calls, accessToken \in Tokens : decodeToken(c, accessToken)
    \/ CacheExpire

SpecDecode == InitDecode /\ [][NextDecode]_vars

(***************************************************************************)
(* Progress: two concurrent calls of which the collaborators of the second *)
(* always answer, while those of the first may stay silent for ever.       *)
(***************************************************************************)
SpecLive == InitConc /\ [][NextConc]_vars /\ WF_vars(Continue(2))

(***************************************************************************)
(* The /api/auth loader (routes/api.auth): it validates the token of the   *)
(* accessToken query parameter with a NativeAuthServer it constructs for   *)
(* the request, and issues a session for the decoded address.              *)
(***************************************************************************)
\* the configuration validateOneTimeToken and decodeToken construct with
LoaderConfig ==
    [ maxExpirySeconds |-> 86400,
      acceptedOriginsIsArray |-> TRUE,
      acceptedOrigins |-> << "*" >>,
      skipLegacyValidation |-> FALSE,
      isOriginAccepted |-> FALSE,
      validateImpersonateCallback |-> FALSE,
      validateImpersonateUrl |-> FALSE,
      cache |-> FALSE ]

\* json(body, {status, headers}) with the default status 200
Respond(status, error) ==
    [request EXCEPT !.stage = "responded", !.status = status, !.error = error]

\* loader, lines 55-66: url.searchParams.get('accessToken') is null when
\* the parameter is absent and '' when it is empty, both falsy ("" here);
\* with a token validateOneTimeToken is entered, which constructs its own
\* NativeAuthServer
loader(accessToken) ==
    /\ request.stage \in {"idle", "responded"}
    /\ IF accessToken = ""
       THEN /\ request' = [NoRequest EXCEPT !.stage = "responded", !.status = 400,
                              !.error = "accessToken query parameter is required"]
            /\ UNCHANGED << instance, config, wildcardOrigins, acceptedWildcardOrigins,
                            cache, call >>
       ELSE /\ validations < MaxValidations
            /\ request' = [NoRequest EXCEPT !.stage = "validating", !.token = accessToken]
            /\ instance' = "new"
            /\ config' = LoaderConfig
            /\ wildcardOrigins' = << >>
            /\ acceptedWildcardOrigins' = << >>
            /\ cache' = << >>
            /\ call' = [c \in Calls |-> IdleCall]
    /\ UNCHANGED validations

\* Boolean(await server.validate(token)): the result is an object
IsValid(cr) == cr.outcome = "resolved"

\* mutant: the session is issued for every token that decodes, whatever
\* validate() said
respond_Decoded ==
    /\ request.stage = "validating"
    /\ instance # "new"
    /\ instance = "ready" => call[1].pc = "done"
    /\ \E decoded \in {Decoded(request.token)} :
           request' =
              IF instance # "ready" \/ decoded.error # "none"
              THEN Respond(500, "Internal Server Error during validation/decoding")
              ELSE [request EXCEPT !.stage = "responded", !.status = 200,
                                   !.user = decoded.address,
                                   !.sessionUserId = decoded.address,
                                   !.setCookie = TRUE]
    /\ UNCHANGED << instance, config, wildcardOrigins, acceptedWildcardOrigins, cache, call,
                    validations >>

\* loader, lines 66-105, once validateOneTimeToken has settled: a throw of
\* the constructor, of validate() or of decode() is caught and answered
\* with 500; a truthy result leads to decodeToken (user = decoded.address)
\* and createUserSessionHeaders({userId: user}); a falsy one to 401
respond ==
    /\ request.stage = "validating"
    /\ instance # "new"
    /\ instance = "ready" => call[1].pc = "done"
    /\ \E decoded \in {Decoded(request.token)} :
       LET cr == call[1]
       IN  request' =
              IF instance # "ready" \/ cr.outcome = "rejected"
              THEN Respond(500, "Internal Server Error during validation/decoding")
              ELSE IF ~IsValid(cr) THEN Respond(401, "Invalid or expired token")
              ELSE IF decoded.error # "none"
              THEN Respond(500, "Internal Server Error during validation/decoding")
              ELSE [request EXCEPT !.stage = "responded", !.status = 200,
                                   !.user = decoded.address,
                                   !.sessionUserId = decoded.address,
                                   !.setCookie = TRUE]
    /\ UNCHANGED << instance, config, wildcardOrigins, acceptedWildcardOrigins, cache, call,
                    validations >>

\* the tokens sent to the loader
LoaderTokens ==
    { Token(BaseOrigin, "aa01", "3", "{}"),
      Token("", "aa01", "3", "{}"),
      Token("https://evil.com", "ffff", "3", "{}"),
      Token("app.example.com", "ffff", "3", "{}"),
      Token("http://a.test", "ffff", "3", "{}"),
      Token(BaseOrigin, "aa01", "3600", "{}"),
      Token(BaseOrigin, "aa01", "3", "{\"impersonate\":\"vibe1y\"}"),
      Token(BaseOrigin, "aa01", "3", "null"),
      Token(BaseOrigin, "aa01", "abc", "{}"),
      \* 100000 seconds, written with an exponent
      Token(BaseOrigin, "aa01", "1e5", "{}"),
      MakeToken("notanaddress", BaseOrigin, "aa01", "3", "{}", "5a"),
      EncodeValue(Signer) \o "." \o EncodeValue("!!!!.ffff.3.e30") \o ".5a",
      "dmliZTFh.e30" }

InitLoader ==
    /\ request = NoRequest
    /\ instance = "new"
    /\ config = LoaderConfig
    /\ wildcardOrigins = << >>
    /\ acceptedWildcardOrigins = << >>
    /\ cache = << >>
    /\ call = [c \in Calls |-> IdleCall]
    /\ validations = 0

\* with LoaderConfig validate() waits for the oracle and the verifier only
NextLoader ==
    \/ \E accessToken \in LoaderTokens \cup {""} : loader(accessToken)
    \/ request.stage = "validating" /\ construct
    \/ request.stage = "validating" /\ call[1].pc = "idle" /\ validate(1, request.token)
    \/ IsOriginAcceptedReturns(1)
    \/ BlockFetchAnswers(1)
    \/ CurrentFetchAnswers(1)
    \/ VerifyAnswers(1)
    \/ VerifyLegacyAnswers(1)
    \/ respond

SpecLoader == InitLoader /\ [][NextLoader]_vars

(***************************************************************************)
(* Properties                                                              *)
(***************************************************************************)
\* the stage a collaborator invocation belongs to
RankOf(e) ==
    IF e.who = "isOriginAccepted" THEN 3
    ELSE IF e.who = "oracle.block" THEN 4
    ELSE IF e.who = "oracle.latest" THEN 5
    ELSE IF e.who = "verifySignature" THEN 6
    ELSE IF e.who \in {"validateImpersonateCallback", "impersonateEndpoint"} THEN 7
    ELSE IF e.arg = LatestKey THEN 5
    ELSE IF StartsWith(e.arg, "block:timestamp:") THEN 4
    ELSE 7

\* the stage a validation error is thrown by
StageOfError(err) ==
    IF err = "InvalidToken" THEN 1
    ELSE IF err = "InvalidTokenTtl" THEN 2
    ELSE IF err = "OriginNotAccepted" THEN 3
    ELSE IF err = "InvalidBlockHash" THEN 4
    ELSE IF err = "TokenExpired" THEN 5
    ELSE IF err \in {"InvalidSignature", "AddressError"} THEN 6
    ELSE 7

\* the answers the call got from the collaborator `who`
RepliesOf(cr, who) ==
    {cr.replies[i] : i \in {j \in 1..Len(cr.replies) : cr.log[j].who = who}}

\* the call got past decode and the TTL bound, its origin was checked and
\* validate() has resumed with the answer
OriginChecked(cr) ==
    cr.pc \notin {"idle", "originCheck"} /\ cr.error \notin {"InvalidToken", "InvalidTokenTtl"}

\* the call got past the origin check
OriginPassed(cr) ==
    /\ OriginChecked(cr)
    /\ \E i \in 1..Len(cr.log) : cr.log[i].who # "isOriginAccepted"

\* origin starts with what precedes the '*' of a configured entry and ends
\* with what follows it
MatchesWildcardEntry(origin) ==
    \E i \in 1..Len(config.acceptedOrigins) :
        LET e == config.acceptedOrigins[i]
        IN  \E k \in 1..Len(e) :
                /\ CharAt(e, k) = "*"
                /\ StartsWith(origin, SubSeq(e, 1, k - 1))
                /\ EndsWith(origin, SubSeq(e, k + 1, Len(e)))

ListedOrigin(origin) ==
    \E i \in 1..Len(config.acceptedOrigins) :
        config.acceptedOrigins[i] \in {origin, "https://" \o origin}

\* C1: the collaborators of one validate() call are invoked in stage order
\* (origin, block timestamp, current timestamp, signature, impersonation),
\* a call rejected by a stage has invoked no collaborator of a later stage,
\* and a settled call invokes nothing more.
C1_StagesInOrder ==
    [][\A c \in Calls :
          LET cr == call'[c]
          IN  /\ \A i, j \in 1..Len(cr.log) :
                    i < j => RankOf(cr.log[i]) <= RankOf(cr.log[j])
              /\ (cr.outcome = "rejected" /\ cr.error # "TransportError"
                    => \A i \in 1..Len(cr.log) : RankOf(cr.log[i]) <= StageOfError(cr.error))
              /\ (call[c].pc = "done" /\ validations' = validations => cr = call[c])]_vars

C1_Witness ==
    \E c \in Calls :
        /\ call[c].outcome = "rejected" /\ call[c].error = "InvalidBlockHash"
        /\ Len(call[c].log) >= 1
        /\ call[c].log[Len(call[c].log)].who = "oracle.block"

\* C2: a resolved validate() had a ttl field that is a base-10 integer not
\* above maxExpirySeconds, and its expires is a number not below the
\* current block timestamp of the expiry check.
C2_AcceptedTtlIsBoundedInteger ==
    \A c \in Calls :
        call[c].outcome = "resolved" =>
            /\ AllDigits(Split(call[c].decoded.body, ".")[3])
            /\ IsNum(call[c].decoded.ttl)
            /\ ~JsGt(call[c].decoded.ttl, Num(config.maxExpirySeconds))
            /\ IsNum(call[c].result.expires)
            /\ ~JsLt(call[c].result.expires, call[c].currentBlockTimestamp)

\* C3: a token whose ttl is above maxExpirySeconds is rejected with
\* InvalidTokenTtl by the step that starts validate(), which invokes no
\* collaborator and leaves the wildcard acceptance cache and the pluggable
\* cache as they were.
C3_TtlAboveMaxFailsFirst ==
    [][\A c \in Calls :
          ( /\ validations' = validations + 1
            /\ call'[c] # call[c]
            /\ call'[c].decoded.error = "none"
            /\ IsNum(call'[c].decoded.ttl)
            /\ JsGt(call'[c].decoded.ttl, Num(config.maxExpirySeconds)) )
          => /\ call'[c].outcome = "rejected"
             /\ call'[c].error = "InvalidTokenTtl"
             /\ call'[c].log = << >>
             /\ acceptedWildcardOrigins' = acceptedWildcardOrigins
             /\ cache' = cache]_vars

C3_Witness ==
    \E c \in Calls :
        /\ call[c].error = "InvalidTokenTtl"
        /\ call[c].decoded.ttl = Num(4)
        /\ MatchesWildcardEntry(call[c].decoded.origin)
        /\ acceptedWildcardOrigins = << >>

\* C4: a call that reached the expiry check is rejected with TokenExpired
\* exactly when blockTimestamp + ttl * 1000 is strictly below the current
\* block timestamp.
C4_ExpiredIffStrictlyBelow ==
    \A c \in Calls :
        call[c].currentBlockTimestamp # Undefined =>
            ( call[c].error = "TokenExpired"
              <=> /\ IsNum(call[c].decoded.ttl)
                  /\ JsLt(JsAdd(call[c].blockTimestamp, JsMul(call[c].decoded.ttl, Num(1000))),
                          call[c].currentBlockTimestamp) )

C4_Witness ==
    \E c \in Calls :
        /\ call[c].blockTimestamp = Num(1000)
        /\ call[c].decoded.ttl = Num(3)
        /\ call[c].currentBlockTimestamp = Num(4000)
        /\ call[c].pc = "verify"

\* C5: validate() is rejected with InvalidBlockHash only if the oracle
\* answered 404 to the block-hash request.
C5_InvalidBlockHashOnlyOn404 ==
    \A c \in Calls :
        call[c].error = "InvalidBlockHash" => "404" \in RepliesOf(call[c], "oracle.block")

\* C6: a call that reaches the signature stage calls the verifier first on
\* address + body and a second time, on address + body + "{}", only after a
\* first answer false with skipLegacyValidation unset (so once when it is
\* set, at most twice otherwise); InvalidSignature is thrown iff every
\* verification answered false.
C6_LegacyRetry ==
    \A c \in Calls :
        LET cr == call[c]
            idx == {i \in 1..Len(cr.log) : cr.log[i].who = "verifySignature"}
            answered == {i \in idx : i <= Len(cr.replies)}
            message == cr.decoded.address \o cr.decoded.body
        IN  /\ Cardinality(idx) <= 2
            /\ (config.skipLegacyValidation => Cardinality(idx) <= 1)
            /\ (cr.currentBlockTimestamp # Undefined
                /\ cr.error \notin {"TokenExpired", "AddressError"} => idx # {})
            /\ \A i \in idx :
                  IF \E j \in idx : j < i
                  THEN /\ cr.log[i].arg = message \o "{}"
                       /\ cr.replies[i - 1] = "false"
                       /\ ~config.skipLegacyValidation
                  ELSE cr.log[i].arg = message
            /\ (Cardinality(idx) = 1 /\ answered = idx /\ ~config.skipLegacyValidation
                  => \A i \in idx : cr.replies[i] = "true")
            /\ (cr.error = "InvalidSignature"
                  <=> /\ idx # {} /\ answered = idx
                      /\ \A i \in idx : cr.replies[i] = "false"
                      /\ (Cardinality(idx) = 2 \/ config.skipLegacyValidation))

C6_Witness ==
    \E c \in Calls :
        /\ call[c].outcome = "resolved"
        /\ RepliesOf(call[c], "verifySignature") = {"false", "true"}

\* C7: the origin check passes iff the origin matches a configured wildcard
\* (or is in the acceptance cache), or it or 'https://' + it is listed, or
\* the custom callback answers true; the callback is invoked only when the
\* other steps failed, and without a callback validate() is then rejected
\* with OriginNotAccepted.
C7_OriginAcceptance ==
    \A c \in Calls :
        LET cr == call[c]
            origin == cr.decoded.origin
            static == \/ InSet(acceptedWildcardOrigins, origin)
                      \/ MatchesWildcardEntry(origin)
                      \/ ListedOrigin(origin)
            asked == \E i \in 1..Len(cr.log) : cr.log[i].who = "isOriginAccepted"
            answers == RepliesOf(cr, "isOriginAccepted")
        IN  OriginChecked(cr) =>
              /\ (asked <=> ~static /\ config.isOriginAccepted)
              /\ (static => OriginPassed(cr))
              /\ (OriginPassed(cr) <=> static \/ "true" \in answers)
              /\ (cr.error = "OriginNotAccepted"
                    <=> ~static /\ (~config.isOriginAccepted \/ "false" \in answers))

C7_Witness ==
    \E c \in Calls :
        /\ call[c].decoded.origin = "app.example.com"
        /\ ListedOrigin("app.example.com")
        /\ ~MatchesWildcardEntry("app.example.com")
        /\ OriginPassed(call[c])
        /\ RepliesOf(call[c], "isOriginAccepted") = {}

\* C8: an origin is accepted by the wildcard step, and so recorded in the
\* acceptance cache, iff it starts with the protocol and ends with the
\* domain of a configured wildcard entry; with ["https://*.example.com"] and
\* no callback, https://foo.example.com passes and http://foo.example.com
\* is rejected.
C8_WildcardStep ==
    \A c \in Calls :
        LET cr == call[c]
            origin == cr.decoded.origin
        IN  OriginChecked(cr) =>
              /\ (InSet(acceptedWildcardOrigins, origin) <=> MatchesWildcardEntry(origin))
              /\ (MatchesWildcardEntry(origin) => OriginPassed(cr))
              /\ ( config.acceptedOrigins = << "https://*.example.com" >>
                   /\ ~config.isOriginAccepted
                   => /\ (origin = "https://foo.example.com" => OriginPassed(cr))
                      /\ (origin = "http://foo.example.com"
                            => cr.error = "OriginNotAccepted") )

C8_Witness ==
    \E c \in Calls :
        /\ config.acceptedOrigins = << "https://*.example.com" >>
        /\ ~config.isOriginAccepted
        /\ call[c].decoded.origin = "http://foo.example.com"
        /\ call[c].error = "OriginNotAccepted"
        /\ InSet(acceptedWildcardOrigins, "https://foo.example.com")

\* C9: the wildcard acceptance cache never holds more than 1000 origins.
C9_CacheWithinLimit == Len(acceptedWildcardOrigins) <= WildcardCacheLimit

\* C10: every origin in the wildcard acceptance cache matches a configured
\* wildcard entry (origins accepted by exact match or by the callback are
\* not in it), and an origin passes the check only if an instance with an
\* empty cache would pass it: a wildcard entry matches, it is listed, or the
\* callback answered true.
C10_CacheHoldsOnlyMatches ==
    /\ \A i \in 1..Len(acceptedWildcardOrigins) :
          MatchesWildcardEntry(acceptedWildcardOrigins[i])
    /\ \A c \in Calls :
          OriginPassed(call[c]) =>
              \/ MatchesWildcardEntry(call[c].decoded.origin)
              \/ ListedOrigin(call[c].decoded.origin)
              \/ "true" \in RepliesOf(call[c], "isOriginAccepted")

C10_Witness ==
    \E c \in Calls :
        /\ acceptedWildcardOrigins # << >>
        /\ OriginPassed(call[c])
        /\ ~MatchesWildcardEntry(call[c].decoded.origin)
        /\ ~InSet(acceptedWildcardOrigins, call[c].decoded.origin)

\* the invocations of the impersonation stage other than the callback: the
\* endpoint request and the reads and writes of the impersonate:* entries
UrlMechanismUsed(cr) ==
    \E i \in 1..Len(cr.log) :
        RankOf(cr.log[i]) = 7 /\ cr.log[i].who # "validateImpersonateCallback"

\* C11: when validateImpersonateCallback is configured the callback alone
\* decides on an impersonation target: such a call never consults the
\* validateImpersonateUrl endpoint or its cache entries, an answer true
\* accepts the target, and an answer false ends in InvalidImpersonate.
C11_CallbackDecides ==
    \A c \in Calls :
        config.validateImpersonateCallback =>
            /\ ~UrlMechanismUsed(call[c])
            /\ ("true" \in RepliesOf(call[c], "validateImpersonateCallback")
                  => call[c].outcome = "resolved")
            /\ ("false" \in RepliesOf(call[c], "validateImpersonateCallback")
                  => call[c].error = "InvalidImpersonate")

\* the verifier found the signature valid: the call reached the impersonation stage
SignatureValid(cr) == "true" \in RepliesOf(cr, "verifySignature")

\* the targets extraInfo names under multisig or impersonate
NamedTargets(extraInfo) ==
    {m \in {Member(extraInfo, "multisig"), Member(extraInfo, "impersonate")} : JsonTruthy(m)}

ImpersonationTouched(cr) == \E i \in 1..Len(cr.log) : RankOf(cr.log[i]) = 7

\* C12: a token of valid signature whose extraInfo names a target
\* (multisig or impersonate) is rejected with InvalidImpersonate when
\* neither validateImpersonateCallback nor validateImpersonateUrl is
\* configured; when extraInfo is absent or names no target no callback,
\* cache entry or endpoint of the impersonation stage is touched, the call
\* resolves and the result address is the signer's.
C12_ImpersonationWithoutMechanism ==
    \A c \in Calls :
        LET cr == call[c]
            targets == NamedTargets(cr.decoded.extraInfo)
        IN  /\ ( SignatureValid(cr) /\ targets # {}
                 /\ ~config.validateImpersonateCallback /\ ~config.validateImpersonateUrl
                 => /\ cr.outcome = "rejected" /\ cr.error = "InvalidImpersonate"
                    /\ ~ImpersonationTouched(cr) )
            /\ ( targets = {}
                 => /\ ~ImpersonationTouched(cr)
                    /\ (SignatureValid(cr) => cr.outcome = "resolved")
                    /\ (cr.outcome = "resolved"
                          => cr.result.address = JsonString(cr.decoded.address)
                             /\ cr.result.address = JsonString(Signer)) )

\* C13: with validateImpersonateUrl and a cache configured, a 403 answer of
\* the endpoint ends the call in InvalidImpersonate, and while the decision
\* 0 is cached under impersonate:{signer}:{target} a validate() for that
\* pair does not request the endpoint.
C13_DeniedServedFromCache ==
    \A c \in Calls :
        LET cr == call[c]
            key == ImpersonateKey(cr.decoded.address,
                                  ImpersonateTarget(cr.decoded.extraInfo))
        IN  config.validateImpersonateUrl /\ config.cache =>
              /\ ( cr.pc = "done" /\ "403" \in RepliesOf(cr, "impersonateEndpoint")
                   => cr.error = "InvalidImpersonate" )
              /\ ( cr.pc = "impersonateFetch" => CacheGet(key) # Num(0) )

\* what a token says, read off its text: the number of its segments and,
\* for a token of at least two segments, the fields of its body
WrittenFields(segments, fields) ==
    [segments |-> Len(segments),
     fields |-> Len(fields),
     address |-> IF Len(segments) >= 1 THEN DecodeValue(segments[1]) ELSE "",
     body |-> IF Len(segments) >= 2 THEN DecodeValue(segments[2]) ELSE "",
     signature |-> IF Len(segments) >= 3 THEN segments[3] ELSE "",
     origin |-> IF Len(fields) >= 1 THEN DecodeValue(fields[1]) ELSE "",
     blockHash |-> IF Len(fields) >= 2 THEN fields[2] ELSE "",
     ttl |-> IF Len(fields) >= 3 THEN fields[3] ELSE "",
     number |-> IF Len(fields) >= 3 THEN StringToNumber(fields[3]) ELSE NaN,
     extraInfoSegment |-> IF Len(fields) >= 4 THEN fields[4] ELSE "",
     extraInfoText |-> IF Len(fields) >= 4 THEN DecodeValue(fields[4]) ELSE "",
     json |-> IF Len(fields) >= 4 THEN JsonParse(DecodeValue(fields[4])) ELSE JsonError]

WrittenSegments(segments) ==
    WrittenFields(segments,
                  IF Len(segments) >= 2 THEN Split(DecodeValue(segments[2]), ".") ELSE << >>)

WrittenIn(accessToken) == WrittenSegments(Split(accessToken, "."))

\* computed once for the input tokens
Written == [t \in Tokens \cup FullTokens |-> WrittenIn(t)]

\* the target the impersonation stage works on: multisig unless it is
\* missing or null, else impersonate; the stage is skipped when it is falsy
RequestedTarget(extraInfo) ==
    IF Member(extraInfo, "multisig").kind \notin {"absent", "null"}
    THEN Member(extraInfo, "multisig")
    ELSE Member(extraInfo, "impersonate")

\* the impersonation stage of the call ended with an approval: the callback
\* answered true, the endpoint answered 2xx, or the cached decision was used
ImpersonationAuthorized(cr) ==
    \/ "true" \in RepliesOf(cr, "validateImpersonateCallback")
    \/ "200" \in RepliesOf(cr, "impersonateEndpoint")
    \/ /\ Len(cr.log) > 0 /\ Len(cr.replies) = Len(cr.log)
       /\ cr.log[Len(cr.log)].who = "cache.getValue"
       /\ RankOf(cr.log[Len(cr.log)]) = 7
       /\ cr.replies[Len(cr.log)] = "hit"

\* the fields of a result other than extraInfo
ResultAddresses(cr) ==
    /\ cr.result.signerAddress = cr.decoded.address
    /\ cr.result.signerAddress = Signer
    /\ cr.result.address = IF ImpersonationAuthorized(cr)
                           THEN RequestedTarget(cr.decoded.extraInfo)
                           ELSE JsonString(cr.decoded.address)
    /\ (JsonTruthy(RequestedTarget(cr.decoded.extraInfo)) => ImpersonationAuthorized(cr))
    /\ cr.result.origin = cr.decoded.origin
    /\ cr.result.origin = Written[cr.token].origin

\* C14 as stated: in every result signerAddress is the decoded address,
\* address is the authorized impersonation target or else the signer,
\* origin is the decoded origin, and extraInfo is present iff the decoded
\* token has an extraInfo.
C14_ResultFields_Original ==
    \A c \in Calls :
        call[c].outcome = "resolved" =>
            /\ ResultAddresses(call[c])
            /\ (call[c].result.extraInfo.kind # "absent"
                  <=> call[c].decoded.extraInfo.kind # "absent")

\* C14 amended: as above, but extraInfo is present in the result iff the
\* decoded extraInfo is truthy (a decoded null, false, 0 or empty string is
\* dropped), and then it is the decoded value.
C14_ResultFields ==
    \A c \in Calls :
        call[c].outcome = "resolved" =>
            /\ ResultAddresses(call[c])
            /\ (call[c].result.extraInfo.kind # "absent"
                  <=> (/\ call[c].decoded.extraInfo.kind \notin {"absent", "null"}
                      /\ ~(call[c].decoded.extraInfo.kind \in {"number", "boolean"}
                           /\ ~Truthy(call[c].decoded.extraInfo.num))
                      /\ call[c].decoded.extraInfo # JsonString("")))
            /\ (call[c].result.extraInfo.kind # "absent"
                  => call[c].result.extraInfo = call[c].decoded.extraInfo)

C14_Witness ==
    \E c \in Calls :
        /\ call[c].outcome = "resolved"
        /\ call[c].result.address = JsonString("vibe1m")
        /\ call[c].result.signerAddress = "vibe1signer"
        /\ HasMember(call[c].result.extraInfo, "impersonate")

\* the timestamps the oracle gives for a block hash
BlockTimestampsOf(hash) == {r.data : r \in {x \in BlockResponses(hash) : x.status = 200}}

\* the one-hour token of the example: block timestamp T = 1000, ttl 3600
HourToken == Token(BaseOrigin, "aa01", "3600", "{}")

\* C15: in every result issued is the timestamp the oracle (or the cache,
\* which holds what the oracle gave earlier) has for the token's block hash,
\* and expires is issued + ttl * 1000 for the decoded ttl in seconds; the
\* token of ttl 3600 and block timestamp T = 1000, checked at the current
\* timestamp T + 1800, is not expired and on a valid signature resolves with
\* issued = T, expires = T + 3600000, address = signer and no extraInfo.
C15_IssuedAndExpires ==
    \A c \in Calls :
        LET cr == call[c]
            ttlText == Written[cr.token].ttl
        IN  /\ ( cr.outcome = "resolved" =>
                   /\ cr.result.issued \in BlockTimestampsOf(cr.decoded.blockHash)
                   /\ (AllDigits(ttlText)
                         => cr.result.expires
                              = JsAdd(cr.result.issued, Num(DecimalValue(ttlText) * 1000)))
                   /\ (~IsNum(cr.decoded.ttl) => cr.result.expires = NaN) )
            /\ ( cr.token = HourToken /\ cr.currentBlockTimestamp = Num(1000 + 1800) =>
                   /\ cr.error # "TokenExpired"
                   /\ (SignatureValid(cr) =>
                         /\ cr.outcome = "resolved"
                         /\ cr.result.issued = Num(1000)
                         /\ cr.result.expires = Num(1000 + 3600000)
                         /\ cr.result.address = JsonString(Signer)
                         /\ cr.result.signerAddress = Signer
                         /\ cr.result.extraInfo.kind = "absent") )

C15_Witness ==
    \E c \in Calls :
        /\ call[c].token = HourToken
        /\ call[c].currentBlockTimestamp = Num(2800)
        /\ call[c].outcome = "resolved"
        /\ call[c].result.expires = Num(3601000)

\* the timestamps the oracle gives for the latest block
LatestTimestamps == {r.data : r \in {x \in LatestResponses : x.status = 200}}

\* how a call ended
Ending(cr) == IF cr.outcome = "resolved" THEN "resolved" ELSE cr.error

\* how the stages after the origin check end on the values they are given,
\* whichever of the cache and the remote gave them
Verdict(cr, blockTimestamp, currentBlockTimestamp, approved) ==
    IF blockTimestamp = Undefined \/ blockTimestamp = Num(0) THEN "InvalidBlockHash"
    ELSE IF /\ IsNum(cr.decoded.ttl) /\ IsNum(currentBlockTimestamp)
            /\ JsLt(JsAdd(blockTimestamp, JsMul(cr.decoded.ttl, Num(1000))),
                    currentBlockTimestamp)
         THEN "TokenExpired"
    ELSE IF ~AddressParses(cr.decoded.address) THEN "AddressError"
    ELSE IF ~SignatureValid(cr) THEN "InvalidSignature"
    ELSE IF ~JsonTruthy(RequestedTarget(cr.decoded.extraInfo)) \/ approved THEN "resolved"
    ELSE IF config.validateImpersonateUrl
            /\ ToPrimitiveThrows(RequestedTarget(cr.decoded.extraInfo))
         THEN "TypeError"
    ELSE "InvalidImpersonate"

\* the call got its answer to the collaborator request (who, arg) from the cache
ServedFromCache(cr, key) ==
    \E i \in 1..Len(cr.replies) :
        cr.log[i] = [who |-> "cache.getValue", arg |-> key] /\ cr.replies[i] = "hit"

\* a call that ran the stages after the origin check to their end
Settled(cr) == cr.pc = "done" /\ OriginPassed(cr) /\ cr.error # "TransportError"

\* C16 as stated: a call run with a cache ends as a run without one that
\* asks the oracle now, whatever the cache holds: when the latest block
\* timestamp was served from the cache the call is expired or not as it is
\* for every timestamp the latest block may have by now (the cached one or
\* a later one).
C16_CacheNeverChangesOutcome ==
    \A c \in Calls :
        Settled(call[c]) /\ config.cache /\ ServedFromCache(call[c], LatestKey) =>
            \A now \in {t \in LatestTimestamps : ~JsLt(t, call[c].currentBlockTimestamp)} :
                Ending(call[c]) = "TokenExpired"
                    <=> Verdict(call[c], call[c].blockTimestamp, now, FALSE) = "TokenExpired"

\* C16 amended: with and without a cache a call ends as the stages after
\* the origin check end on the values it worked with, and the cache only
\* hands out values the remote gave for the same key; the outcome is that
\* of a run without cache whenever the live entries still equal what the
\* remote answers.
C16_SameOutcomeOnSameValues ==
    /\ \A c \in Calls :
          LET cr == call[c]
          IN  /\ (Settled(cr) =>
                    Ending(cr) = Verdict(cr, cr.blockTimestamp, cr.currentBlockTimestamp,
                                         ImpersonationAuthorized(cr)))
              /\ (cr.blockTimestamp # Undefined
                    => cr.blockTimestamp \in BlockTimestampsOf(cr.decoded.blockHash))
              /\ (cr.currentBlockTimestamp # Undefined
                    => cr.currentBlockTimestamp \in LatestTimestamps)
    /\ (~config.cache => cache = << >>)
    /\ (LatestKey \in DOMAIN cache => cache[LatestKey].value \in LatestTimestamps)

C16_Witness ==
    \E c \in Calls :
        /\ config.cache
        /\ ServedFromCache(call[c], LatestKey)
        /\ ServedFromCache(call[c], BlockKey("aa01"))
        /\ call[c].outcome = "resolved"

\* the number of '*' in an accepted origin, and what precedes the first one
StarCount(origin) == Cardinality({i \in 1..Len(origin) : CharAt(origin, i) = "*"})

BeforeStar(origin) ==
    SubSeq(origin, 1, (CHOOSE i \in 1..Len(origin) :
                          /\ CharAt(origin, i) = "*"
                          /\ \A j \in 1..(i - 1) : CharAt(origin, j) # "*") - 1)

\* no '*', or a single '*' preceded by nothing or by the protocol
WellFormedOrigin(origin) ==
    \/ StarCount(origin) = 0
    \/ StarCount(origin) = 1 /\ BeforeStar(origin) \in {"", "http://", "https://"}

MalformedEntry(cfg) ==
    \E i \in 1..Len(cfg.acceptedOrigins) : ~WellFormedOrigin(cfg.acceptedOrigins[i])

\* 0 < maxExpirySeconds <= 86400000, and a non-empty array of accepted origins
WithinBounds(cfg) ==
    /\ 0 < cfg.maxExpirySeconds /\ cfg.maxExpirySeconds <= 86400 * 1000
    /\ cfg.acceptedOriginsIsArray
    /\ Len(cfg.acceptedOrigins) > 0

\* the constructor threw: there is no instance, and nothing ran on one
NoInstance ==
    /\ wildcardOrigins = << >> /\ acceptedWildcardOrigins = << >> /\ cache = << >>
    /\ validations = 0 /\ \A c \in Calls : call[c] = IdleCall

\* C17: the constructor throws InvalidConfig, leaving no instance, when
\* maxExpirySeconds is outside 0 < maxExpirySeconds <= 86400000, when
\* acceptedOrigins is no array, and when it is empty; it returns an instance
\* for every configuration within these bounds whose origins are well-formed.
C17_ConstructorBounds ==
    instance # "new" =>
        /\ (~WithinBounds(config) => instance = "InvalidConfig")
        /\ (instance # "ready" => NoInstance)
        /\ (WithinBounds(config) /\ ~MalformedEntry(config) => instance = "ready")
        /\ (instance = "ready" => WithinBounds(config))

C17_Witness ==
    /\ instance = "InvalidConfig"
    /\ config.maxExpirySeconds = 0
    /\ config.acceptedOrigins = << "https://*.example.com" >>

\* C18: a configuration with an accepted origin of more than one '*', or of
\* a single '*' preceded by anything but "", "http://" or "https://", fails
\* construction with the InvalidConfig kind, as the other failures do.
C18_MalformedWildcardIsInvalidConfig ==
    instance # "new" /\ config.acceptedOriginsIsArray /\ MalformedEntry(config)
        => instance = "InvalidConfig"

\* the token has 3 segments, its body 4 fields, and its extraInfo is JSON
WellFormedToken(accessToken) ==
    /\ Written[accessToken].segments = 3
    /\ Written[accessToken].fields = 4
    /\ Written[accessToken].json.ok

\* C19: decode fails with InvalidToken when the token has not exactly 3
\* segments, when its decoded body has not exactly 4 fields, and when its
\* extraInfo is no JSON (and decodes otherwise); validate() of such a token
\* is rejected with InvalidToken before anything else is done.
C19_MalformedTokenIsInvalid ==
    \A c \in Calls :
        LET cr == call[c]
        IN  cr.pc # "idle" =>
              /\ (cr.decoded.error = "InvalidToken" <=> ~WellFormedToken(cr.token))
              /\ (cr.decoded.error = "none" <=> WellFormedToken(cr.token))
              /\ ( ~WellFormedToken(cr.token) =>
                     /\ cr.outcome = "rejected" /\ cr.error = "InvalidToken"
                     /\ cr.log = << >> )
              /\ (cr.error = "InvalidToken" => ~WellFormedToken(cr.token))

C19_Witness ==
    \E c \in Calls :
        /\ call[c].error = "InvalidToken"
        /\ Written[call[c].token].segments = 3
        /\ Written[call[c].token].fields = 5

\* C20: a token that decodes has an extraInfo iff the JSON object decoded
\* from its extraInfo segment is non-empty: whatever the encoding of the
\* empty object, the result has no extraInfo, and a non-empty object is the
\* extraInfo of the result as it stands.
C20_ExtraInfoIffNonEmpty ==
    \A c \in Calls :
        LET cr == call[c]
            json == Written[cr.token].json
        IN  cr.pc # "idle" /\ cr.decoded.error = "none" /\ json.kind = "object" =>
              /\ (cr.decoded.extraInfo.kind # "absent" <=> json.members # << >>)
              /\ (json.members # << >> => cr.decoded.extraInfo = json)

\* what decode returns for a well-formed token, read off its text
ReadOff(w) ==
    [error |-> "none", ttl |-> w.number, origin |-> w.origin, address |-> w.address,
     extraInfo |-> IF w.extraInfoSegment = "e30" THEN NoExtraInfo ELSE w.json,
     signature |-> w.signature, blockHash |-> w.blockHash, body |-> w.body]

\* the call is a decode call that returned or threw
DecodeEnded(cr) ==
    cr.pc = "done" /\ cr.log = << >> /\ (cr.outcome = "decoded" \/ cr.error = "InvalidToken")

    /\ call[1].token # call[2].token
    /\ acceptedWildcardOrigins = << BaseOrigin >>
    /\ LatestKey \in DOMAIN cache

\* the error kinds of a validation failure
ValidationErrors ==
    {"InvalidToken", "InvalidTokenTtl", "OriginNotAccepted", "InvalidBlockHash",
     "TokenExpired", "InvalidSignature", "InvalidImpersonate"}

\* C22: every rejection of validate() carries one of the validation error
\* kinds or is a transport error of the oracle or the impersonation
\* endpoint; no other error (such as that of parsing a malformed signer
\* address) reaches the caller, and none is InvalidConfig.
C22_OnlyEnumeratedErrors ==
    \A c \in Calls :
        call[c].outcome = "rejected" =>
            /\ call[c].error \in ValidationErrors \cup {"TransportError"}
            /\ (call[c].error = "TransportError"
                  => "500" \in RepliesOf(call[c], "oracle.block")
                               \cup RepliesOf(call[c], "oracle.latest")
                               \cup RepliesOf(call[c], "impersonateEndpoint"))

\* what one call shows of itself is what a call alone with the same token
\* and the same answers shows: it works on its own token, its origin is
\* accepted by the configured entries or its own callback answer, the
\* timestamps are those of its own block hash and of the latest block, and
\* it ends as the stages end on the answers it was given
AsIfAlone(cr) ==
    LET origin == cr.decoded.origin
    IN  /\ cr.decoded = DecodedTokens[cr.token]
        /\ (OriginChecked(cr) =>
              (OriginPassed(cr) <=> \/ MatchesWildcardEntry(origin)
                                    \/ ListedOrigin(origin)
                                    \/ "true" \in RepliesOf(cr, "isOriginAccepted")))
        /\ (cr.blockTimestamp # Undefined
              => cr.blockTimestamp \in BlockTimestampsOf(DecodedTokens[cr.token].blockHash))
        /\ (cr.currentBlockTimestamp # Undefined
              => cr.currentBlockTimestamp \in LatestTimestamps)
        /\ (Settled(cr) =>
              Ending(cr) = Verdict(cr, cr.blockTimestamp, cr.currentBlockTimestamp,
                                   ImpersonationAuthorized(cr)))
        /\ (cr.outcome = "resolved" =>
              /\ ResultAddresses(cr)
              /\ cr.result.issued = cr.blockTimestamp
              /\ cr.result.expires = JsAdd(cr.blockTimestamp,
                                           JsMul(DecodedTokens[cr.token].ttl, Num(1000))))

\* a step of one call leaves what the other call holds as it is
OneCallSteps ==
    \A c \in Calls : call'[c] # call[c] => \A d \in Calls \ {c} : call'[d] = call[d]

\* the latest block timestamps the oracle can give a call that asks it
\* itself where this call was handed a cached one: that one or a later one
FreshLatest(cr) ==
    IF cr.currentBlockTimestamp # Undefined /\ "200" \notin RepliesOf(cr, "oracle.latest")
    THEN {t \in LatestTimestamps : ~JsLt(t, cr.currentBlockTimestamp)}
    ELSE {cr.currentBlockTimestamp}

\* the decisions the callback or endpoint can give a call that asks itself
\* where this call was handed a cached approval
FreshApprovals(cr) ==
    IF /\ ImpersonationAuthorized(cr)
       /\ "true" \notin RepliesOf(cr, "validateImpersonateCallback")
       /\ "200" \notin RepliesOf(cr, "impersonateEndpoint")
    THEN BOOLEAN
    ELSE {ImpersonationAuthorized(cr)}

\* every value the call holds that no remote gave to itself was given by
\* the remote to another call, for the same key, and came through the
\* pluggable cache
HandedOver(c) ==
    LET cr == call[c]
    IN  /\ ( cr.blockTimestamp # Undefined /\ "200" \notin RepliesOf(cr, "oracle.block") =>
               /\ config.cache
               /\ ServedFromCache(cr, BlockKey(cr.decoded.blockHash))
               /\ \E d \in Calls \ {c} :
                     /\ "200" \in RepliesOf(call[d], "oracle.block")
                     /\ call[d].decoded.blockHash = cr.decoded.blockHash
                     /\ call[d].blockTimestamp = cr.blockTimestamp )
        /\ ( cr.currentBlockTimestamp # Undefined
                /\ "200" \notin RepliesOf(cr, "oracle.latest") =>
               /\ config.cache
               /\ ServedFromCache(cr, LatestKey)
               /\ \E d \in Calls \ {c} :
                     /\ "200" \in RepliesOf(call[d], "oracle.latest")
                     /\ call[d].currentBlockTimestamp = cr.currentBlockTimestamp )
        /\ ( ( /\ ImpersonationAuthorized(cr)
               /\ "true" \notin RepliesOf(cr, "validateImpersonateCallback")
               /\ "200" \notin RepliesOf(cr, "impersonateEndpoint") ) =>
               /\ config.cache
               /\ \E d \in Calls \ {c} :
                     /\ "200" \in RepliesOf(call[d], "impersonateEndpoint")
                     /\ call[d].decoded.address = cr.decoded.address
                     /\ ImpersonateTarget(call[d].decoded.extraInfo)
                           = ImpersonateTarget(cr.decoded.extraInfo) )

\* the call is given every value by the remotes themselves
AsksItself(cr) == "hit" \notin RepliesOf(cr, "cache.getValue")

\* C23 as stated: concurrent validate() calls on one instance are
\* independent: under every interleaving a step of one call changes nothing
\* the other holds, and each call ends in the outcome a call alone has on
\* the same token against the same oracle, endpoint and callback; a call
\* alone asks them itself, so a call handed the latest block timestamp or
\* the approval another call had cached ends as it does for every answer
\* the oracle (the cached timestamp or a later one) or the endpoint
\* (approval or refusal) can give by then.
C23_EndsAsAlone ==
    /\ [](\A c \in Calls : call[c].pc # "idle" => AsIfAlone(call[c]))
    /\ [](\A c \in Calls :
            Settled(call[c]) =>
                \A now \in FreshLatest(call[c]), approved \in FreshApprovals(call[c]) :
                    Ending(call[c]) = Verdict(call[c], call[c].blockTimestamp, now, approved))
    /\ [][OneCallSteps]_vars

\* C23 amended: concurrent validate() calls on one instance share the
\* wildcard acceptance cache and the pluggable cache and nothing else. Under
\* every interleaving a step of one call changes nothing the other holds; a
\* call alone, and every call on an instance without a pluggable cache, is
\* given each value by the remotes themselves; with a pluggable cache a call
\* may instead be handed the block timestamp, latest timestamp or approval
\* the remote gave the other call for the same key; and each call ends in
\* the outcome (result fields or error kind) a call alone has on the same
\* token and the answers it worked with, its own or those handed over.
C23_ConcurrentCallsIndependent ==
    /\ [](\A c \in Calls : call[c].pc # "idle" => AsIfAlone(call[c]))
    /\ [](\A c \in Calls : call[c].pc # "idle" => HandedOver(c))
    /\ [](\A c \in Calls :
            ~config.cache \/ (\A d \in Calls \ {c} : call[d].pc = "idle")
                => AsksItself(call[c]))
    /\ [][OneCallSteps]_vars

\* two calls in flight at once: the second started before the first ended,
\* was handed the block timestamp and the latest timestamp 2800 the first
\* had cached, and resolved a token that is expired at the timestamp 4001
\* the latest block has by then
C23_Witness ==
    /\ config.cache
    /\ call[1].pc = "done" /\ call[2].pc = "done"
    /\ call[1].token # call[2].token
    /\ Len(call[1].log) > 3
    /\ ServedFromCache(call[2], BlockKey("aa01"))
    /\ ServedFromCache(call[2], LatestKey)
    /\ call[2].currentBlockTimestamp = Num(2800)
    /\ call[1].outcome = "resolved" /\ call[1].result.address = JsonString("vibe1y")
    /\ call[2].outcome = "resolved" /\ call[2].result.address = JsonString(Signer)
    /\ Verdict(call[2], call[2].blockTimestamp, Num(4001), FALSE) = "TokenExpired"

\* the origins the calls present
PresentedOrigins == {DecodedTokens[t].origin : t \in Tokens \cup FullTokens}

\* C24: the acceptance cache changes only by the insertion of a newly
\* matched origin at the end; when that brings it above 1000 entries
\* exactly one entry is removed, the one inserted earliest, and the new
\* origin stays; a hit leaves the cache and its order as they are.
C24_FifoEviction ==
    [][acceptedWildcardOrigins' # acceptedWildcardOrigins =>
          \E origin \in PresentedOrigins :
              /\ ~InSet(acceptedWildcardOrigins, origin)
              /\ acceptedWildcardOrigins' =
                    IF Len(acceptedWildcardOrigins) < WildcardCacheLimit
                    THEN Append(acceptedWildcardOrigins, origin)
                    ELSE Append(Tail(acceptedWildcardOrigins), origin)]_vars

\* C25: the lookup-insert-evict step of one call is one step, never
\* interleaved with that of another call: whenever a call takes a step the
\* acceptance cache it can observe holds at most 1000 origins, and a step
\* that inserts an origin into a full cache ends with it inserted last and
\* with one or (over-evicting) two of the earlier entries removed.
C25_InsertEvictAtomic ==
    [][(\E c \in Calls : call'[c] # call[c]) =>
          /\ Len(acceptedWildcardOrigins) <= WildcardCacheLimit
          /\ (acceptedWildcardOrigins' # acceptedWildcardOrigins
                /\ Len(acceptedWildcardOrigins) = WildcardCacheLimit =>
                  /\ Len(acceptedWildcardOrigins')
                        \in {WildcardCacheLimit - 1, WildcardCacheLimit}
                  /\ ~InSet(acceptedWildcardOrigins,
                            acceptedWildcardOrigins'[Len(acceptedWildcardOrigins')]))]_vars

\* the cache key of the impersonation decision the call asks for
ImpersonateEntry(cr) ==
    "impersonate:" \o cr.decoded.address \o ":" \o JsString(RequestedTarget(cr.decoded.extraInfo))

\* the call sent a request to the impersonation endpoint
AskedEndpoint(cr) == \E i \in 1..Len(cr.log) : cr.log[i].who = "impersonateEndpoint"

\* the call ended accepting the target it asked for
AcceptedTarget(cr) ==
    /\ cr.pc = "done" /\ cr.outcome = "resolved"
    /\ cr.result.address = RequestedTarget(cr.decoded.extraInfo)

\* what one step of the URL mechanism does to the call c
UrlMechanismStep(c) ==
    LET cr == call[c]
        key == ImpersonateEntry(cr)
    IN  \* the endpoint answers 2xx: accepted, at once or after the cache write
        /\ (cr.pc = "impersonateFetch" /\ call'[c].replies = Append(cr.replies, "200") =>
              IF config.cache
              THEN call'[c].pc = "impersonateCacheSet" /\ call'[c].fetched = Num(1)
                   /\ call'[c].log = Append(cr.log, [who |-> "cache.setValue", arg |-> key])
              ELSE AcceptedTarget(call'[c]))
        \* the cache write of an approval: 1 for 3600 seconds
        /\ (cr.pc = "impersonateCacheSet" /\ cr.fetched = Num(1) /\ call'[c] # cr =>
              /\ key \in DOMAIN cache'
              /\ cache'[key] = [value |-> Num(1), ttl |-> 3600]
              /\ AcceptedTarget(call'[c]))
        \* a live approval: accepted, and no request is sent
        /\ (cr.pc = "impersonateCacheGet" /\ call'[c] # cr
              /\ key \in DOMAIN cache /\ cache[key].value = Num(1) =>
              /\ AcceptedTarget(call'[c])
              /\ call'[c].log = cr.log
              /\ cache' = cache)

\* C26: with validateImpersonateUrl and no callback, a 2xx answer of the
\* endpoint accepts the target and caches 1 under
\* impersonate:{signer}:{target} for 3600 seconds, and while that entry is
\* live a later validate() for the same pair accepts the target without a
\* request to the endpoint.
C26_ApprovalCachedOneHour ==
    /\ [](config.validateImpersonateUrl /\ ~config.validateImpersonateCallback =>
            /\ \A c \in Calls :
                  call[c].pc = "done" /\ "200" \in RepliesOf(call[c], "impersonateEndpoint")
                    => AcceptedTarget(call[c])
            /\ \A key \in DOMAIN cache :
                  StartsWith(key, "impersonate:") =>
                     cache[key].ttl = 3600 /\ cache[key].value \in {Num(0), Num(1)})
    /\ [][config.validateImpersonateUrl /\ ~config.validateImpersonateCallback =>
            \A c \in Calls : UrlMechanismStep(c)]_vars

\* a later call for the same pair was accepted from the live entry
C26_Witness ==
    \E c \in Calls :
        /\ config.validateImpersonateUrl /\ ~config.validateImpersonateCallback
        /\ validations = 2
        /\ "impersonate:vibe1signer:vibe1y" \in DOMAIN cache
        /\ cache["impersonate:vibe1signer:vibe1y"] = [value |-> Num(1), ttl |-> 3600]
        /\ ServedFromCache(call[c], "impersonate:vibe1signer:vibe1y")
        /\ ~AskedEndpoint(call[c])
        /\ AcceptedTarget(call[c])
        /\ call[c].result.address = JsonString("vibe1y")

\* what one step of a timestamp read does to the call c: `get`, `fetch`
\* and `set` are its positions at the cache read, the remote request and
\* the cache write, key its cache key, who and arg the remote request
TimestampReadStep(c, get, fetch, set, key, who, arg, ttl) ==
    LET cr == call[c]
        moved == call'[c] # cr
    IN  \* a hit: the cached value is used, no request and no write
        /\ (cr.pc = get /\ moved /\ key \in DOMAIN cache =>
              /\ call'[c].log = cr.log \/ call'[c].log[Len(call'[c].log)].who # who
              /\ call'[c].pc # fetch
              /\ cache' = cache)
        \* a miss: the remote is asked
        /\ (cr.pc = get /\ moved /\ key \notin DOMAIN cache =>
              /\ call'[c].pc = fetch
              /\ call'[c].log = Append(cr.log, [who |-> who, arg |-> arg])
              /\ cache' = cache)
        \* the remote is asked only after the cache, when there is one
        /\ (cr.pc # fetch /\ call'[c].pc = fetch /\ config.cache => cr.pc = get)
        \* the fetched value is written under the key with the TTL
        /\ (cr.pc = set /\ moved =>
              /\ key \in DOMAIN cache'
              /\ cache'[key] = [value |-> cr.fetched, ttl |-> ttl])

\* C27: both timestamp reads consult the pluggable cache first and contact
\* the remote API only on a miss; the latest timestamp is kept under
\* block:timestamp:latest for 6 seconds, that of a block under
\* block:timestamp:{hash} for config.maxExpirySeconds; a cache hit causes
\* no remote request and no cache write.
C27_TimestampReadsCacheFirst ==
    [][\A c \in Calls :
          /\ TimestampReadStep(c, "currentCacheGet", "currentFetch", "currentCacheSet",
                               "block:timestamp:latest", "oracle.latest", "", 6)
          /\ TimestampReadStep(c, "blockCacheGet", "blockFetch", "blockCacheSet",
                               "block:timestamp:" \o call[c].decoded.blockHash,
                               "oracle.block", call[c].decoded.blockHash,
                               config.maxExpirySeconds)]_vars

\* the remote `who` answers the request the call waits for at `pc` with
\* the status `status`
Answered(c, pc, who, status) ==
    /\ call[c].pc = pc
    /\ Len(call[c].log) > 0 /\ call[c].log[Len(call[c].log)].who = who
    /\ call'[c].replies = Append(call[c].replies, status)

\* the call is rejected with the error of the failed request, its last
\* invocation being that request
RejectedWithTransportError(cr, who) ==
    /\ cr.pc = "done" /\ cr.outcome = "rejected"
    /\ cr.error = "TransportError"
    /\ cr.error \notin ValidationErrors
    /\ cr.log[Len(cr.log)].who = who

\* C28: a failure of the block-hash lookup other than 404, and a failure of
\* the impersonation endpoint other than 403, reject validate() with that
\* error itself, no validation error kind in its place, and write nothing
\* to the cache; a 404 of the block-hash lookup writes nothing either.
C28_FailuresPropagate ==
    [][\A c \in Calls :
          /\ (Answered(c, "blockFetch", "oracle.block", "500") =>
                /\ RejectedWithTransportError(call'[c], "oracle.block")
                /\ call'[c].log = call[c].log
                /\ cache' = cache)
          /\ (Answered(c, "impersonateFetch", "impersonateEndpoint", "500") =>
                /\ RejectedWithTransportError(call'[c], "impersonateEndpoint")
                /\ call'[c].log = call[c].log
                /\ cache' = cache)
          /\ (Answered(c, "blockFetch", "oracle.block", "404") =>
                /\ call'[c].error = "InvalidBlockHash"
                /\ call'[c].log = call[c].log
                /\ cache' = cache)]_vars

\* with a cache, a failed block-hash lookup after a miss: rejected with the
\* transport error and the cache still empty
C28_Witness ==
    \E c \in Calls :
        /\ config.cache
        /\ call[c].log = << [who |-> "cache.getValue", arg |-> "block:timestamp:aa01"],
                            [who |-> "oracle.block", arg |-> "aa01"] >>
        /\ call[c].replies = << "miss", "500" >>
        /\ RejectedWithTransportError(call[c], "oracle.block")
        /\ cache = << >>

\* C29: a failure of the pluggable cache is treated like a miss: after a
\* failed read the call asks the remote, after a failed write it goes on
\* with the value it fetched, and validate() is never rejected because the
\* cache failed.
C29_CacheFailureIsAMiss ==
    [][\A c \in Calls :
          call[c].pc \in CachePositions
            /\ call'[c].replies \in {Append(call[c].replies, failure) :
                                         failure \in {"error", "error404", "error403"}} =>
              /\ call'[c].outcome # "rejected"
              /\ (call[c].pc = "blockCacheGet" => call'[c].pc = "blockFetch")
              /\ (call[c].pc = "currentCacheGet" => call'[c].pc = "currentFetch")
              /\ (call[c].pc = "impersonateCacheGet" => call'[c].pc = "impersonateFetch")
              /\ (call[c].pc = "blockCacheSet"
                    => call'[c].blockTimestamp = call[c].fetched)
              /\ (call[c].pc = "currentCacheSet"
                    => call'[c].currentBlockTimestamp = call[c].fetched)
              /\ (call[c].pc = "impersonateCacheSet" /\ call[c].fetched = Num(1)
                    => call'[c].outcome = "resolved")]_vars

\* s is base64 or base64url text: characters of the alphabet, '-' and '_',
\* and at most two '=' at its end
IsBase64Text(s) ==
    \A i \in 1..Len(s) :
        \/ \E k \in 1..64 : CharAt(B64Alphabet, k) = CharAt(s, i)
        \/ CharAt(s, i) \in {"-", "_"}
        \/ CharAt(s, i) = "=" /\ i >= Len(s) - 1

\* the token has a segment (address, body, origin or extraInfo) that is not
\* base64 text
BadBase64In(accessToken) ==
    LET segments == Split(accessToken, ".")
        fields == IF Len(segments) >= 2 THEN Split(DecodeValue(segments[2]), ".") ELSE << >>
    IN  \/ Len(segments) >= 1 /\ ~IsBase64Text(segments[1])
        \/ Len(segments) >= 2 /\ ~IsBase64Text(segments[2])
        \/ Len(fields) >= 1 /\ ~IsBase64Text(fields[1])
        \/ Len(fields) >= 4 /\ ~IsBase64Text(fields[4])

\* computed once for the input tokens
BadBase64 == [t \in Tokens |-> BadBase64In(t)]

\* C30: decode(token) fails with InvalidToken when the address, body,
\* origin or extraInfo segment of the token is not well-formed base64 or
\* base64url text.
C30_BadBase64IsInvalidToken ==
    \A c \in Calls :
        call[c].pc = "done" /\ BadBase64[call[c].token] =>
            call[c].outcome = "rejected" /\ call[c].error = "InvalidToken"

\* the number of requests the call sent to the remote `who`
Requests(cr, who) == Cardinality({i \in 1..Len(cr.log) : cr.log[i].who = who})

\* the call has started and not settled
InFlight(cr) == cr.pc \notin {"idle", "done"}

\* the call waits for a collaborator (at "originCheck" it waits for no
\* one: the origin is decided and validate() is about to resume)
AwaitsCollaborator(cr) == InFlight(cr) /\ cr.pc # "originCheck"

\* a call that waits for a collaborator moves only in a step in which that
\* collaborator answers
SettlesOnAnswer ==
    \A c \in Calls :
        AwaitsCollaborator(call[c]) /\ call'[c] # call[c] =>
            Len(call'[c].replies) = Len(call[c].replies) + 1

\* C31: no retry: one validate() call sends at most one block-hash
\* request, one latest-block request and one impersonation request; a call
\* whose collaborators all answer settles, a call settles only when the
\* collaborator it waits for answers (no timeout), and a call whose
\* collaborator stays silent does not keep another call from settling.
C31_NoRetryAndProgress ==
    /\ [](\A c \in Calls :
             /\ Requests(call[c], "oracle.block") <= 1
             /\ Requests(call[c], "oracle.latest") <= 1
             /\ Requests(call[c], "impersonateEndpoint") <= 1)
    /\ [][SettlesOnAnswer]_vars
    /\ (InFlight(call[2]) ~> call[2].pc = "done")

\* the second call has resolved, with all three requests sent, while the
\* first still waits for the answer to its block-hash request
C31_Witness ==
    /\ call[1].pc = "blockFetch"
    /\ call[2].pc = "done" /\ call[2].outcome = "resolved"
    /\ Requests(call[2], "oracle.block") = 1
    /\ Requests(call[2], "oracle.latest") = 1
    /\ Requests(call[2], "impersonateEndpoint") = 1

\* the acceptance cache gained an origin that matches a configured
\* wildcard, at its end, and lost at most its oldest entry
GainedMatchedOrigin ==
    \E c \in Calls :
        LET origin == DecodedTokens[call'[c].token].origin
        IN  /\ call[c].pc \in {"idle", "done"} /\ call'[c].outcome # "decoded"
            /\ MatchesWildcardEntry(origin)
            /\ ~InSet(acceptedWildcardOrigins, origin)
            /\ \/ acceptedWildcardOrigins' = Append(acceptedWildcardOrigins, origin)
               \/ /\ Len(acceptedWildcardOrigins) > 0
                  /\ acceptedWildcardOrigins' =
                        Append(Tail(acceptedWildcardOrigins), origin)

\* the pluggable cache was written by a call that waited for its write to
\* return, or lost an entry whose TTL ran out
CacheWrittenOrExpired ==
    \/ /\ config.cache
       /\ \E c \in Calls :
             /\ call[c].pc \in {"blockCacheSet", "currentCacheSet", "impersonateCacheSet"}
             /\ call'[c] # call[c]
             /\ \A k \in DOMAIN cache :
                   k \in DOMAIN cache'
                     /\ (cache'[k] # cache[k] => k = call[c].log[Len(call[c].log)].arg)
    \/ /\ DOMAIN cache' \subseteq DOMAIN cache
       /\ \A k \in DOMAIN cache' : cache'[k] = cache[k]

\* C32: after construction no validate() or decode() call changes the
\* configuration or the wildcard list derived from it; a validate() call
\* changes, besides what it holds itself, only the wildcard acceptance
\* cache (which gains matched origins and loses evicted ones) and the
\* pluggable cache, and a decode() call changes neither.
C32_ConfigurationIsImmutable ==
    /\ [](wildcardOrigins = getWildcardOrigins(config.acceptedOrigins))
    /\ [][/\ instance' = instance
          /\ config' = config
          /\ wildcardOrigins' = wildcardOrigins
          /\ (acceptedWildcardOrigins' # acceptedWildcardOrigins => GainedMatchedOrigin)
          /\ (cache' # cache => CacheWrittenOrExpired)
          /\ ((\E c \in Calls : call'[c] # call[c] /\ call'[c].outcome = "decoded")
                => acceptedWildcardOrigins' = acceptedWildcardOrigins /\ cache' = cache)]_vars

\* validate() calls have filled the acceptance cache and the pluggable
\* cache, after one of them was let through by the origin callback, and a
\* decode() call followed
C32_Witness ==
    /\ validations = 2
    /\ call[1].outcome = "decoded"
    /\ call[1].decoded.origin = "https://evil.com"
    /\ config.isOriginAccepted
    /\ acceptedWildcardOrigins = << BaseOrigin >>
    /\ LatestKey \in DOMAIN cache
    /\ wildcardOrigins = getWildcardOrigins(config.acceptedOrigins)

\* C33: when the token of the accessToken parameter fails validation
\* (invalid, expired, bad signature, unknown block) the loader answers 401
\* 'Invalid or expired token'; 500 is answered only for server-side faults.
C33_InvalidTokenIs401 ==
    request.stage = "responded" /\ request.token # "" =>
        /\ (call[1].outcome = "rejected" /\ call[1].error \in ValidationErrors =>
              request.status = 401 /\ request.error = "Invalid or expired token")
        /\ (request.status = 500 => call[1].error \notin ValidationErrors)

\* C34: the loader issues a session (the Set-Cookie header of
\* createUserSessionHeaders) only for a request that carried a token for
\* which validate() resolved; a missing token (400) and a failed validation
\* or decoding produce no session headers, and the userId of the session
\* is the address field of the validation result for that token.
C34_SessionOnlyForValidatedToken ==
    /\ (request.setCookie =>
          /\ request.stage = "responded" /\ request.status = 200
          /\ request.token # "" /\ call[1].token = request.token
          /\ call[1].pc = "done" /\ call[1].outcome = "resolved"
          /\ JsonString(request.sessionUserId) = call[1].result.address
          /\ request.user = request.sessionUserId)
    /\ (request.stage = "responded" /\ request.status # 200 =>
          ~request.setCookie /\ request.sessionUserId = "")
    /\ (request.stage = "responded" /\ request.token = "" => request.status = 400)
    /\ (request.stage = "responded" /\ request.token # "" /\ call[1].outcome # "resolved" =>
          ~request.setCookie)

\* a session was issued for the signer of a validated token
C34_Witness ==
    /\ request.stage = "responded" /\ request.setCookie
    /\ request.sessionUserId = Signer
    /\ call[1].outcome = "resolved" /\ call[1].result.address = JsonString(Signer)
    /\ call[1].decoded.origin = ""
    /\ validations = 2

\* C35: with the configuration of the /api/auth loader
\* (acceptedOrigins = ['*']) the constructor derives one wildcard of empty
\* protocol and empty domain, every origin, the empty string included,
\* passes the origin check at the wildcard step, and validate() never fails
\* with OriginNotAccepted.
C35_StarAcceptsEveryOrigin ==
    /\ config = LoaderConfig
    /\ instance \in {"new", "ready"}
    /\ (instance = "ready" => wildcardOrigins = << [protocol |-> "", domain |-> ""] >>)
    /\ \A c \in Calls :
          /\ call[c].error # "OriginNotAccepted"
          /\ (OriginChecked(call[c]) =>
                /\ OriginPassed(call[c])
                /\ acceptedWildcardOrigins = << call[c].decoded.origin >>
                /\ RepliesOf(call[c], "isOriginAccepted") = {})

\* the token of empty origin went past the origin check and was resolved
C35_Witness ==
    /\ request.stage = "validating"
    /\ call[1].outcome = "resolved"
    /\ call[1].decoded.origin = ""
    /\ Written[call[1].token].origin = ""
    /\ acceptedWildcardOrigins = << "" >>

====
